---- MODULE Spec2Model ----
(***************************************************************************)
(* Hot-topic harvesting pipeline: archive merge (upsert_topic), post       *)
(* refresh (update_topic over crawl_topic), and the hourly backfill        *)
(* scheduler (run_loop / process_hour) with its files on disk.             *)
(***************************************************************************)
EXTENDS Integers, Sequences, FiniteSets, TLC

VARIABLES
    cr_pc,        \* crawl_topic: "page" (in the loop over pages), "sort", "done"
    cr_page,      \* crawl_topic: the page the loop is at
    cr_st,        \* crawl_topic: seen_ids, collected, stats, rejections, errors
    cr_p,         \* crawl_topic: the CrawlParams of the run
    cr_left,      \* crawl_topic: cards of the current page not yet read
    cr_more,      \* crawl_topic: cardlistInfo.page of the current page
    cr_result,    \* crawl_topic: the returned result
    cr_good,      \* history: ids of the cards read so far that pass every content test
    cr_fetch      \* fetch_page: attempts made for the current page, and every attempt so far

VARIABLES
    record_map,   \* a day's archive in memory: stripped title -> TopicRecord
    a_date,       \* the date of the archive file record_map belongs to
    a_ops,        \* number of operations applied to record_map so far
    a_last        \* history: the last operation, its arguments and the record before it

VARIABLES
    now,           \* wall clock, minutes since day 0, 00:00 (+08:00)
    ticks,         \* number of clock advances so far
    pc,            \* position of run_loop / process_hour
    caller,        \* who called process_hour: "boot" (process_latest_hour) or "pending"
    pending,       \* process_pending_hours: slots still to process in this cycle
    processed_any, \* process_pending_hours: its flag
    cur,           \* process_hour: the slot (absolute hour index) being processed
    topics,        \* process_hour: the fetched entries, their source and hour of observation
    daily_data,    \* update_daily_archive: the archive in memory
    wr,            \* a write_text in progress: the file is truncated, not yet written
    hourly,        \* files data/hot_topics/hourly/<date>/<hour>.json: slot -> content
    archive,       \* files data/hot_topics/<date>.json: date -> content
    summary,       \* file data/hot_topics/daily_heat.json
    postCache,     \* files data/posts/hourly/<date>/<hour>/<slug>.json: <<slot, title>> -> mtime
    exitCause,     \* why run_loop ended: "none", "exception", "shutdown", "crash"
    stopping,      \* a stop signal was received, the worker thread is still running
    restarts,      \* number of times the program was started again
    faults,        \* number of environment errors (failed calls, kills) so far
    trace,         \* history: steps of the current process_hour, in the order they ran
    f_last,        \* history: the last fetch_topics_with_fallback
    api            \* the HTTP query layer and the broadcaster: the request in progress

VARIABLES
    aicard,        \* files under data/aicard/hourly and the last AI card operation
    ws             \* HotTopicsWebSocketServer: clients, broadcast loop, messages sent

schedVars == <<now, ticks, pc, caller, pending, processed_any, cur, topics, daily_data, wr,
               hourly, archive, summary, postCache, exitCause, stopping, restarts, faults, trace, f_last, api>>
archVars == <<record_map, a_date, a_ops, a_last>>
crawlVars == <<cr_pc, cr_page, cr_st, cr_p, cr_left, cr_more, cr_result, cr_good, cr_fetch>>
auxVars == <<aicard, ws>>
vars == <<crawlVars, archVars, schedVars, auxVars>>

(* ------------------------------------------------------------------ *)
(* Bounds of the model                                                   *)
(* ------------------------------------------------------------------ *)
MaxOps == 3
MaxTicks == 1
MaxRestarts == 1
MaxFaults == 1
MaxPageCards == 2

(* ------------------------------------------------------------------ *)
(* Program constants                                                     *)
(* ------------------------------------------------------------------ *)
TOP_N == 30
MAX_PAGES == 5
MIN_SCORE == 0
POLL_INTERVAL_SECONDS == 600
RECENT_RETRY_SECONDS == 60
LOCAL_FALLBACK_THRESHOLD_MINUTES == 45
MAX_LOOKBACK_DAYS == 1
HOURLY_POST_LIMIT == 20
HOURLY_POST_CACHE_TTL_SECONDS == 3600
MAX_DAYS == 120

(* ------------------------------------------------------------------ *)
(* Small helpers on sequences                                            *)
(* ------------------------------------------------------------------ *)
Range(s) == {s[i] : i \in 1..Len(s)}

Count(s, x) == Cardinality({i \in 1..Len(s) : s[i] = x})

NoDup(s) == \A i, j \in 1..Len(s) : s[i] = s[j] => i = j

Take(s, n) == IF n >= Len(s) THEN s ELSE SubSeq(s, 1, n)

(* ------------------------------------------------------------------ *)
(* Titles: sequences of characters, so that strip() does something       *)
(* ------------------------------------------------------------------ *)
RawTitles == {<< >>, <<" ">>, <<"a">>, <<"a", " ">>, <<"b">>}

RECURSIVE LStrip(_)
LStrip(s) == IF s # << >> /\ Head(s) = " " THEN LStrip(Tail(s)) ELSE s

RECURSIVE RStrip(_)
RStrip(s) == IF s # << >> /\ s[Len(s)] = " " THEN RStrip(SubSeq(s, 1, Len(s) - 1)) ELSE s

Strip(s) == RStrip(LStrip(s))

ensure_hashtag_format(title) ==
    LET stripped == Strip(title)
        a == IF stripped # << >> /\ Head(stripped) = "#" THEN stripped ELSE <<"#">> \o stripped
    IN  IF a[Len(a)] = "#" /\ Len(a) > 0 THEN a ELSE a \o <<"#">>

(* Snapshot entries as a source hands them over: title, heat, ad flag. *)
Dates == {1, 2}
HotVals == {1, 2}
Hours == {9, 10}
Topics == [title : RawTitles, hot : HotVals]

(* f"{hour:02d}" *)
HourStr(hour) == <<hour \div 10, hour % 10>>

iso_time(date_str, hour) == [date |-> date_str, hh |-> HourStr(hour), rest |-> ":00:00+08:00"]

None == << >>
Some(x) == <<x>>

(* No AI card file on disk, no call made. *)
NoCard == [html |-> << >>, json |-> << >>, index |-> << >>, fetches |-> 0, calls |-> 0,
           last |-> [kind |-> "none"]]

(* The WebSocket server not started. *)
NoSocket == [pc |-> "off"]

AuxIdle == aicard = NoCard /\ ws = NoSocket

NoPosts == [present |-> FALSE, items |-> << >>, total |-> 0, empty_reason |-> << >>, stats |-> << >>]

(* ------------------------------------------------------------------ *)
(* ArchiveMerger: upsert_topic                                           *)
(* ------------------------------------------------------------------ *)
IsAlnum(c) == c \in {"a", "b"}

(* re.sub(r"[^0-9A-Za-z]+", "-", title): every maximal run of other characters becomes one "-" *)
RECURSIVE SubRuns(_, _)
SubRuns(s, inRun) ==
    IF s = << >> THEN << >>
    ELSE IF IsAlnum(Head(s)) THEN <<Head(s)>> \o SubRuns(Tail(s), FALSE)
    ELSE IF inRun THEN SubRuns(Tail(s), TRUE)
    ELSE <<"-">> \o SubRuns(Tail(s), TRUE)

RECURSIVE StripDash(_)
StripDash(s) ==
    IF s # << >> /\ Head(s) = "-" THEN StripDash(Tail(s))
    ELSE IF s # << >> /\ s[Len(s)] = "-" THEN StripDash(SubSeq(s, 1, Len(s) - 1))
    ELSE s

(* the md5 digest of the title is kept as the title itself behind the "topic-" prefix *)
slugify_title(title) ==
    LET slug == StripDash(SubRuns(title, FALSE))
    IN  IF slug # << >> THEN slug ELSE <<"topic-">> \o title

(* Mutant: a new record starts as already refreshed. *)
NewRecordNoRefresh(topic, date_str, hour) ==
    [ title             |-> topic.title,
      hot               |-> topic.hot,
      appeared_hours    |-> <<HourStr(hour)>>,
      first_seen        |-> iso_time(date_str, hour),
      last_seen         |-> iso_time(date_str, hour),
      last_post_refresh |-> None,
      known_ids         |-> << >>,
      needs_refresh     |-> FALSE,
      latest_posts      |-> NoPosts,
      slug              |-> slugify_title(Strip(topic.title)) ]

(* Mutant: the slug of a merged record is the title as the entry carries it. *)
MergeRecordRawSlug(record, topic, date_str, hour) ==
    [ record EXCEPT
        !.title = topic.title,
        !.hot = topic.hot,
        !.appeared_hours = IF HourStr(hour) \in Range(@) THEN @ ELSE Append(@, HourStr(hour)),
        !.last_seen = iso_time(date_str, hour),
        !.slug = topic.title,
        !.needs_refresh = IF record.last_post_refresh # Some(date_str) THEN TRUE ELSE @ ]

NewRecord(topic, date_str, hour) ==
    [ title             |-> topic.title,
      hot               |-> topic.hot,
      appeared_hours    |-> <<HourStr(hour)>>,
      first_seen        |-> iso_time(date_str, hour),
      last_seen         |-> iso_time(date_str, hour),
      last_post_refresh |-> None,
      known_ids         |-> << >>,
      needs_refresh     |-> TRUE,
      latest_posts      |-> NoPosts,
      slug              |-> slugify_title(Strip(topic.title)) ]

(* Mutant: the membership test before the append is dropped. *)
MergeRecordAlwaysAppend(record, topic, date_str, hour) ==
    [ record EXCEPT
        !.title = topic.title,
        !.hot = topic.hot,
        !.appeared_hours = Append(@, HourStr(hour)),
        !.last_seen = iso_time(date_str, hour),
        !.slug = slugify_title(Strip(topic.title)),
        !.needs_refresh = IF record.last_post_refresh # Some(date_str) THEN TRUE ELSE @ ]

(* Mutant: needs_refresh is raised only for a record never refreshed. *)
MergeRecordOnlyUnrefreshed(record, topic, date_str, hour) ==
    [ record EXCEPT
        !.title = topic.title,
        !.hot = topic.hot,
        !.appeared_hours = IF HourStr(hour) \in Range(@) THEN @ ELSE Append(@, HourStr(hour)),
        !.last_seen = iso_time(date_str, hour),
        !.slug = slugify_title(Strip(topic.title)),
        !.needs_refresh = IF record.last_post_refresh = None THEN TRUE ELSE @ ]

(* The branch of upsert_topic for a title already in the archive. *)
MergeRecord(record, topic, date_str, hour) ==
    [ record EXCEPT
        !.title = topic.title,
        !.hot = topic.hot,
        !.appeared_hours = IF HourStr(hour) \in Range(@) THEN @ ELSE Append(@, HourStr(hour)),
        !.last_seen = iso_time(date_str, hour),
        !.slug = slugify_title(Strip(topic.title)),
        !.needs_refresh = IF record.last_post_refresh # Some(date_str) THEN TRUE ELSE @ ]

(* Mutant: only the empty title is dropped, a title of spaces is merged. *)
upsert_topic_unstripped(rm, topic, date_str, hour) ==
    LET title == Strip(topic.title) IN
    IF topic.title = << >> THEN rm
    ELSE IF title \notin DOMAIN rm
         THEN [t \in DOMAIN rm \cup {title} |->
                 IF t = title THEN NewRecord(topic, date_str, hour) ELSE rm[t]]
         ELSE [rm EXCEPT ![title] = MergeRecord(rm[title], topic, date_str, hour)]

(* upsert_topic: the record map after the call (the map is mutated in place). *)
upsert_topic(rm, topic, date_str, hour) ==
    LET title == Strip(topic.title) IN
    IF title = << >> THEN rm
    ELSE IF title \notin DOMAIN rm
         THEN [t \in DOMAIN rm \cup {title} |->
                 IF t = title THEN NewRecord(topic, date_str, hour) ELSE rm[t]]
         ELSE [rm EXCEPT ![title] = MergeRecord(rm[title], topic, date_str, hour)]

(* upsert_topic: what the call returns, None or the record created or updated. *)
upsert_return(rm, topic, date_str, hour) ==
    LET title == Strip(topic.title) IN
    IF title = << >> THEN None ELSE Some(upsert_topic(rm, topic, date_str, hour)[title])

(* ------------------------------------------------------------------ *)
(* CrawlEngine: crawl_topic                                              *)
(* ------------------------------------------------------------------ *)
PostIds == {"A", "B", "C"}
CreatedVals == {None, Some(1), Some(2)}
LikeVals == {0, 1}
Cards == [type9 : BOOLEAN, id : PostIds \cup {""}, hasTerm : BOOLEAN,
          likes : LikeVals, comments : {0}, reposts : {0}, created : CreatedVals]

(* calculate_score, times ten: 0.6 likes + 0.3 comments + 0.1 reposts *)
calculate_score(mblog) == 6 * mblog.likes + 3 * mblog.comments + 1 * mblog.reposts

normalize_mblog(mblog) ==
    [id |-> mblog.id, created_at |-> mblog.created, likes |-> mblog.likes,
     comments |-> mblog.comments, reposts |-> mblog.reposts, score |-> 0]

Rejections == {"missing_id", "skip_list", "duplicate", "missing_hashtag", "too_old", "below_min_score"}

CrawlStart(skip_ids) ==
    [ seen_ids |-> skip_ids,
      collected |-> << >>,
      pages_requested |-> 0,
      pages_succeeded |-> 0,
      cards_seen |-> 0,
      type9_seen |-> 0,
      rejections |-> [r \in Rejections |-> 0],
      errors |-> << >> ]

Reject(st, why) == [st EXCEPT !.rejections[why] = @ + 1]

(* Mutant: the skip list is not consulted (seen_ids starts from it all the same). *)
CrawlCardNoSkipList(st, card, p) ==
    IF ~card.type9 THEN st
    ELSE LET st1 == [st EXCEPT !.type9_seen = @ + 1] IN
         IF card.id = "" THEN Reject(st1, "missing_id")
         ELSE IF card.id \in st1.seen_ids \ p.skip_ids THEN Reject(st1, "duplicate")
         ELSE IF ~card.hasTerm THEN Reject(st1, "missing_hashtag")
         ELSE IF p.since # None /\ card.created # None /\ card.created[1] < p.since[1]
              THEN Reject(st1, "too_old")
         ELSE IF calculate_score(card) < p.min_score THEN Reject(st1, "below_min_score")
         ELSE [st1 EXCEPT
                 !.collected = Append(@, [normalize_mblog(card) EXCEPT !.score = calculate_score(card)]),
                 !.seen_ids = @ \cup {card.id}]

(* The body of the loop over a page's cards. *)
CrawlCard(st, card, p) ==
    IF ~card.type9 THEN st
    ELSE LET st1 == [st EXCEPT !.type9_seen = @ + 1] IN
         IF card.id = "" THEN Reject(st1, "missing_id")
         ELSE IF card.id \in p.skip_ids THEN Reject(st1, "skip_list")
         ELSE IF card.id \in st1.seen_ids THEN Reject(st1, "duplicate")
         ELSE IF ~card.hasTerm THEN Reject(st1, "missing_hashtag")
         ELSE IF p.since # None /\ card.created # None /\ card.created[1] < p.since[1]
              THEN Reject(st1, "too_old")
         ELSE IF calculate_score(card) < p.min_score THEN Reject(st1, "below_min_score")
         ELSE [st1 EXCEPT
                 !.collected = Append(@, [normalize_mblog(card) EXCEPT !.score = calculate_score(card)]),
                 !.seen_ids = @ \cup {card.id}]

RECURSIVE CrawlCards(_, _, _)
CrawlCards(st, cards, p) ==
    IF cards = << >> THEN st ELSE CrawlCards(CrawlCard(st, Head(cards), p), Tail(cards), p)

(* The head of one iteration of the page loop: the fetch and its bookkeeping. *)
(* fetch_page answers (data, None) or (None, error); ncards is len(cards).   *)
CrawlPageHead(st, page, ok, error, ncards) ==
    LET st1 == [st EXCEPT !.pages_requested = @ + 1]
        st2 == IF error # None
               THEN [st1 EXCEPT !.errors = Append(@, <<page, error[1]>>)]
               ELSE st1
    IN  IF ~ok THEN st2
        ELSE [st2 EXCEPT !.pages_succeeded = @ + 1, !.cards_seen = @ + ncards]

(* collected.sort(key=(score, created_at or ""), reverse=True): stable, descending *)
CreatedKey(c) == IF c = None THEN 0 ELSE c[1]

KeyGreater(x, y) ==
    \/ x.score > y.score
    \/ x.score = y.score /\ CreatedKey(x.created_at) > CreatedKey(y.created_at)

RECURSIVE InsertDesc(_, _)
InsertDesc(s, x) ==
    IF s = << >> THEN <<x>>
    ELSE IF KeyGreater(x, Head(s)) THEN <<x>> \o s
    ELSE <<Head(s)>> \o InsertDesc(Tail(s), x)

RECURSIVE SortDesc(_)
SortDesc(s) == IF s = << >> THEN << >> ELSE InsertDesc(SortDesc(SubSeq(s, 1, Len(s) - 1)), s[Len(s)])

EmptyReason(st) ==
    LET n == st.type9_seen
        r == st.rejections
        all(k, name) == IF r[k] # 0 /\ r[k] = n THEN <<name>> ELSE << >>
        parts == IF st.pages_succeeded = 0
                 THEN (IF st.errors # << >> THEN <<"fetch_failed">> ELSE <<"no_response">>)
                 ELSE IF n = 0 THEN <<"no_topic_cards">>
                 ELSE LET q == all("missing_hashtag", "all_posts_missing_hashtag")
                               \o all("too_old", "all_posts_before_since")
                               \o all("below_min_score", "all_posts_below_min_score")
                               \o all("skip_list", "all_posts_in_skip_ids")
                      IN  IF q = << >> THEN <<"filtered_out">> ELSE q
    IN  IF st.errors # << >> /\ st.pages_succeeded # 0 THEN parts \o <<"page_error">> ELSE parts

(* Mutant: the candidates are truncated in the order they were collected. *)
CrawlResultUnsorted(st, p) ==
    LET limited == Take(st.collected, p.top_n) IN
    [ present |-> TRUE,
      items |-> limited,
      total |-> Len(st.collected),
      empty_reason |-> IF limited = << >> THEN EmptyReason(st) ELSE << >>,
      stats |-> IF limited = << >> THEN Some([st EXCEPT !.collected = << >>, !.seen_ids = {}]) ELSE None ]

(* The tail of crawl_topic: sort, truncate, build the result. *)
CrawlResult(st, p) ==
    LET limited == Take(SortDesc(st.collected), p.top_n) IN
    [ present |-> TRUE,
      items |-> limited,
      total |-> Len(st.collected),
      empty_reason |-> IF limited = << >> THEN EmptyReason(st) ELSE << >>,
      stats |-> IF limited = << >> THEN Some([st EXCEPT !.collected = << >>, !.seen_ids = {}]) ELSE None ]

(* One iteration of the loop over pages: the state after it, and whether the loop breaks. *)
CrawlPage(st, page, outcome, p) ==
    LET st1 == CrawlPageHead(st, page, outcome.ok, outcome.error, Len(outcome.cards)) IN
    IF ~outcome.ok \/ outcome.cards = << >> THEN [st |-> st1, stop |-> TRUE]
    ELSE [st |-> CrawlCards(st1, outcome.cards, p), stop |-> ~outcome.more]

RECURSIVE CrawlLoop(_, _, _, _)
CrawlLoop(st, page, source, p) ==
    IF page > p.max_pages \/ page > Len(source) THEN st
    ELSE LET r == CrawlPage(st, page, source[page], p)
         IN  IF r.stop THEN r.st ELSE CrawlLoop(r.st, page + 1, source, p)

(* crawl_topic run against a source: the pages the remote answers with, in order. *)
crawl_topic(source, p) == CrawlResult(CrawlLoop(CrawlStart(p.skip_ids), 1, source, p), p)

(* Sources for the refresh strategies: a page of posts that pass every test, a failed fetch. *)
GoodPost(id) == [type9 |-> TRUE, id |-> id, hasTerm |-> TRUE, likes |-> 1, comments |-> 0,
                 reposts |-> 0, created |-> Some(1)]

PageOf(ids) == [ok |-> TRUE, error |-> None, cards |-> [i \in 1..Len(ids) |-> GoodPost(ids[i])],
                more |-> FALSE]

FailedPage == [ok |-> FALSE, error |-> Some("http_403"), cards |-> << >>, more |-> FALSE]

(* ------------------------------------------------------------------ *)
(* PostRefreshPipeline: update_topic                                     *)
(* ------------------------------------------------------------------ *)
(* _convert_detail_posts: posts[:limit], each with its counters and score (times ten) *)
ConvertDetailPost(post) ==
    [id |-> post.id, created_at |-> post.created, likes |-> post.likes,
     comments |-> post.comments, reposts |-> post.forwards,
     score |-> 6 * post.forwards + 3 * post.comments + 1 * post.likes]

convert_detail_posts(posts, limit) ==
    LET kept == IF limit > 0 THEN Take(posts, limit) ELSE posts
    IN  [i \in 1..Len(kept) |-> ConvertDetailPost(kept[i])]

RefreshParams(record) ==
    [ skip_ids |-> Range(record.known_ids), top_n |-> TOP_N, max_pages |-> MAX_PAGES,
      min_score |-> MIN_SCORE, since |-> None ]

KnownIds(items) == SelectSeq([i \in 1..Len(items) |-> items[i].id], LAMBDA x : x # "")

(* Mutant: the loop over the searches does not break on a non-empty candidate. *)
ChooseResultNoBreak(title, record, env) ==
    LET p == RefreshParams(record)
        hashtag == crawl_topic(env.hashtag, p)
        runKeyword == Strip(title) # << >>
        keyword == crawl_topic(env.keyword, p)
        crawled == IF runKeyword /\ keyword.items # << >> THEN keyword ELSE hashtag
        invoked == IF runKeyword THEN <<"hashtag", "keyword">> ELSE <<"hashtag">>
        detail == convert_detail_posts(env.detail, TOP_N)
    IN  IF crawled.items # << >> THEN [result |-> crawled, invoked |-> invoked]
        ELSE [ result |-> IF detail # << >>
                          THEN [present |-> TRUE, items |-> detail, total |-> Len(detail),
                                empty_reason |-> << >>, stats |-> None]
                          ELSE crawled,
               invoked |-> Append(invoked, "detail") ]

(* Mutant: when every strategy comes back empty no result is kept. *)
ChooseResultAbsentWhenEmpty(title, record, env) ==
    LET p == RefreshParams(record)
        hashtag == crawl_topic(env.hashtag, p)
        runKeyword == hashtag.items = << >> /\ Strip(title) # << >>
        keyword == crawl_topic(env.keyword, p)
        crawled == IF runKeyword /\ keyword.items # << >> THEN keyword ELSE hashtag
        invoked == IF runKeyword THEN <<"hashtag", "keyword">> ELSE <<"hashtag">>
        detail == convert_detail_posts(env.detail, TOP_N)
    IN  IF crawled.items # << >> THEN [result |-> crawled, invoked |-> invoked]
        ELSE [ result |-> IF detail # << >>
                          THEN [present |-> TRUE, items |-> detail, total |-> Len(detail),
                                empty_reason |-> << >>, stats |-> None]
                          ELSE NoPosts,
               invoked |-> Append(invoked, "detail") ]

(* Lines 44-98 of update_topic: the strategies invoked, in order, and the result kept. *)
(* env: what each strategy would answer (the search pages per term, the topic page).   *)
ChooseResult(title, record, env) ==
    LET p == RefreshParams(record)
        hashtag == crawl_topic(env.hashtag, p)
        runKeyword == hashtag.items = << >> /\ Strip(title) # << >>
        keyword == crawl_topic(env.keyword, p)
        crawled == IF runKeyword /\ keyword.items # << >> THEN keyword ELSE hashtag
        invoked == IF runKeyword THEN <<"hashtag", "keyword">> ELSE <<"hashtag">>
        detail == convert_detail_posts(env.detail, TOP_N)
    IN  IF crawled.items # << >> THEN [result |-> crawled, invoked |-> invoked]
        ELSE [ result |-> IF detail # << >>
                          THEN [present |-> TRUE, items |-> detail, total |-> Len(detail),
                                empty_reason |-> << >>, stats |-> None]
                          ELSE crawled,
               invoked |-> Append(invoked, "detail") ]

(* Mutant: known_ids keeps the ids it held and gains the new ones. *)
PersistResultUnionIds(record, date_str, result) ==
    [ record EXCEPT
        !.last_post_refresh = Some(date_str),
        !.known_ids = @ \o KnownIds(result.items),
        !.latest_posts = result,
        !.needs_refresh = ~(result.items # << >>) ]

(* Mutant: the record is marked refreshed whatever the result holds. *)
PersistResultAlwaysFresh(record, date_str, result) ==
    [ record EXCEPT
        !.last_post_refresh = Some(date_str),
        !.known_ids = KnownIds(result.items),
        !.latest_posts = result,
        !.needs_refresh = FALSE ]

(* Lines 100-111 of update_topic: the outcome written back into the record. *)
PersistResult(record, date_str, result) ==
    [ record EXCEPT
        !.last_post_refresh = Some(date_str),
        !.known_ids = KnownIds(result.items),
        !.latest_posts = result,
        !.needs_refresh = ~(result.items # << >>) ]

update_topic(title, record, date_str, env) ==
    LET \* lines 41-42: slug = record.get("slug") or slugify_title(title)
        slugged == [record EXCEPT !.slug = IF @ # << >> THEN @ ELSE slugify_title(title)]
        c == ChooseResult(title, slugged, env)
    IN  [record |-> PersistResult(slugged, date_str, c.result), invoked |-> c.invoked, result |-> c.result]

(* ------------------------------------------------------------------ *)
(* DailyHeatAggregator: summarize_archive, update_daily_heat             *)
(* ------------------------------------------------------------------ *)
(* A heat that is a JSON integer is the field hot; any other JSON value is kept *)
(* apart, in hot_raw, with its kind: null, bool, float (in tenths), str (chars). *)
Digits == <<"0", "1", "2", "3", "4", "5", "6", "7", "8", "9">>
DigitVal(c) == (CHOOSE i \in 1..10 : Digits[i] = c) - 1

RECURSIVE DigitsValue(_)
DigitsValue(s) == IF s = << >> THEN 0 ELSE 10 * DigitsValue(SubSeq(s, 1, Len(s) - 1)) + DigitVal(s[Len(s)])

(* int(float(value.strip())) for the texts of an optional sign and digits; *)
(* the empty text and a text float() rejects give None.                    *)
ParseInt(chars) ==
    LET t == Strip(chars)
        neg == t # << >> /\ Head(t) = "-"
        body == IF neg THEN Tail(t) ELSE t
    IN  IF body = << >> \/ \E i \in 1..Len(body) : body[i] \notin Range(Digits) THEN None
        ELSE Some(IF neg THEN 0 - DigitsValue(body) ELSE DigitsValue(body))

(* int() of a float truncates towards zero *)
TruncTenths(t) == IF t >= 0 THEN t \div 10 ELSE 0 - ((0 - t) \div 10)

coerce_int(value) ==
    CASE value.kind = "null"  -> None
      [] value.kind = "bool"  -> Some(IF value.b THEN 1 ELSE 0)
      [] value.kind = "float" -> Some(TruncTenths(value.tenths))
      [] value.kind = "str"   -> ParseInt(value.chars)
      [] OTHER                -> None

(* _coerce_int(record.get("hot")) and record.get("ads") *)
HotValue(record) == IF "hot_raw" \in DOMAIN record THEN coerce_int(record.hot_raw) ELSE Some(record.hot)
IsAd(record) == "ads" \in DOMAIN record /\ record.ads

RECURSIVE SumHot(_, _)
SumHot(rm, S) ==
    IF S = {} THEN 0
    ELSE LET t == CHOOSE x \in S : TRUE IN HotValue(rm[t])[1] + SumHot(rm, S \ {t})

summarize_archive(date_str, rm) ==
    LET counted == {t \in DOMAIN rm :
                      ~IsAd(rm[t]) /\ HotValue(rm[t]) # None /\ ~(HotValue(rm[t])[1] < 0)}
    IN  [date |-> date_str, total_heat |-> SumHot(rm, counted), topic_count |-> Cardinality(counted)]

RECURSIVE SortedDates(_)
SortedDates(D) ==
    IF D = {} THEN << >>
    ELSE LET m == CHOOSE x \in D : \A y \in D : x <= y IN <<m>> \o SortedDates(D \ {m})

LastEntryFor(entries, d) ==
    entries[CHOOSE i \in 1..Len(entries) :
               entries[i].date = d /\ \A j \in 1..Len(entries) : entries[j].date = d => j <= i]

(* Mutant: the new entry is added without replacing the one of its date. *)
update_daily_heat_append(entries, date_str, rm) ==
    LET all == Append(entries, summarize_archive(date_str, rm))
    IN  IF Len(all) > MAX_DAYS THEN SubSeq(all, Len(all) - MAX_DAYS + 1, Len(all)) ELSE all

(* Mutant: over the cap the oldest dates are kept, sorted_dates[:MAX_DAYS]. *)
update_daily_heat_oldest(entries, date_str, rm) ==
    LET entry == summarize_archive(date_str, rm)
        dates == SortedDates({entries[i].date : i \in 1..Len(entries)} \cup {date_str})
        kept == IF Len(dates) > MAX_DAYS THEN SubSeq(dates, 1, MAX_DAYS) ELSE dates
    IN  [i \in 1..Len(kept) |-> IF kept[i] = date_str THEN entry ELSE LastEntryFor(entries, kept[i])]

(* update_daily_heat: the entries stored after the call *)
update_daily_heat(entries, date_str, rm) ==
    LET entry == summarize_archive(date_str, rm)
        dates == SortedDates({entries[i].date : i \in 1..Len(entries)} \cup {date_str})
        kept == IF Len(dates) > MAX_DAYS
                THEN SubSeq(dates, Len(dates) - MAX_DAYS + 1, Len(dates))
                ELSE dates
    IN  [i \in 1..Len(kept) |-> IF kept[i] = date_str THEN entry ELSE LastEntryFor(entries, kept[i])]

(* ------------------------------------------------------------------ *)
(* HourlyBackfillScheduler: time, slots, pending hours, escalation gate  *)
(* ------------------------------------------------------------------ *)
(* A slot is an absolute hour index: date = slot \div 24, hour = slot % 24. *)
SlotDate(s) == s \div 24
SlotHour(s) == s % 24
SlotStart(s) == 60 * s
SlotOf(date, hour) == 24 * date + hour
NowDate(t) == t \div 1440
NowHour(t) == (t \div 60) % 24

(* Mutant: the loop over the hours stops one short, range(max_hour). *)
RECURSIVE MissingHoursOneShort(_, _, _, _)
MissingHoursOneShort(files, date, hour, max_hour) ==
    IF hour >= max_hour THEN << >>
    ELSE (IF SlotOf(date, hour) \in DOMAIN files THEN << >> ELSE <<SlotOf(date, hour)>>)
         \o MissingHoursOneShort(files, date, hour + 1, max_hour)

RECURSIVE MissingHours(_, _, _, _)
MissingHours(files, date, hour, max_hour) ==
    IF hour > max_hour THEN << >>
    ELSE (IF SlotOf(date, hour) \in DOMAIN files THEN << >> ELSE <<SlotOf(date, hour)>>)
         \o MissingHours(files, date, hour + 1, max_hour)

(* Mutant: of today only the hours that are over are scanned. *)
RECURSIVE PendingFromPastHours(_, _, _)
PendingFromPastHours(files, t, offset) ==
    IF offset > MAX_LOOKBACK_DAYS THEN << >>
    ELSE LET target == t - 1440 * offset
             max_hour == IF offset = 0 THEN NowHour(target) - 1 ELSE 23
         IN  MissingHours(files, NowDate(target), 0, max_hour) \o PendingFromPastHours(files, t, offset + 1)

RECURSIVE PendingFrom(_, _, _)
PendingFrom(files, t, offset) ==
    IF offset > MAX_LOOKBACK_DAYS THEN << >>
    ELSE LET target == t - 1440 * offset
             max_hour == IF offset = 0 THEN NowHour(target) ELSE 23
         IN  MissingHours(files, NowDate(target), 0, max_hour) \o PendingFrom(files, t, offset + 1)

collect_pending_hours(files, t) == PendingFrom(files, t, 0)

(* Mutant: the threshold is compared with > instead of >=. *)
should_trigger_local_strict(s, t) ==
    IF t < SlotStart(s) THEN FALSE
    ELSE IF t - SlotStart(s) > LOCAL_FALLBACK_THRESHOLD_MINUTES THEN TRUE
    ELSE IF NowDate(t) > SlotDate(s) THEN TRUE
    ELSE IF NowHour(t) > SlotHour(s) THEN TRUE
    ELSE FALSE

should_trigger_local(s, t) ==
    IF t < SlotStart(s) THEN FALSE
    ELSE IF t - SlotStart(s) >= LOCAL_FALLBACK_THRESHOLD_MINUTES THEN TRUE
    ELSE IF NowDate(t) > SlotDate(s) THEN TRUE
    ELSE IF NowHour(t) > SlotHour(s) THEN TRUE
    ELSE FALSE

(* Files: write_text truncates the file and then writes it. *)
FileOk(data) == [state |-> "ok", data |-> data]
FilePartial == [state |-> "partial", data |-> << >>]

WriteFile(files, key, content) ==
    [k \in DOMAIN files \cup {key} |-> IF k = key THEN content ELSE files[k]]

NoWrite == [busy |-> FALSE, file |-> "none", key |-> 0, data |-> << >>, step |-> "none", caught |-> FALSE]

NoTopics == [entries |-> << >>, local |-> FALSE, asof |-> 0]

NoFetch == [slot |-> 0, at |-> 0, remote |-> "none", local |-> "none", requests |-> 0]

(* The consumers at rest: no request in progress, nothing broadcast yet. *)
NoRequest == [pc |-> "idle", date |-> 0, title |-> << >>, data |-> << >>, served |-> 0, version |-> None]

(* The entries a source may hand over for a slot. *)
EntryA == [title |-> <<"a">>, hot |-> 1]
EntryB == [title |-> <<"b">>, hot |-> 2]
EntryBlank == [title |-> <<" ">>, hot |-> 1]
EntryLocal == [title |-> <<"a", " ">>, hot |-> 2]
RemoteTopics == <<EntryA, EntryBlank, EntryB>>
LocalTopics == <<EntryLocal>>

(* What the searches answer during a scheduler run: nothing, or one post. *)
EnvEmpty == [hashtag |-> <<FailedPage>>, keyword |-> <<FailedPage>>, detail |-> << >>]
EnvPosts == [hashtag |-> <<PageOf(<<"A">>)>>, keyword |-> <<FailedPage>>, detail |-> << >>]

(* The state an earlier run of the scheduler left: the hours up to lastHour of a day *)
(* merged one after the other, every refresh having found nothing.                   *)
MergedHours(date, lastHour, skip) ==
    LET hs == SortedDates({h \in 0..lastHour : SlotOf(date, h) \notin skip})
        rm == upsert_topic(<< >>, EntryA, date, hs[1])
    IN  IF hs = << >> THEN << >>
        ELSE [t \in DOMAIN rm |->
                [update_topic(t, rm[t], date, EnvEmpty).record EXCEPT
                    !.appeared_hours = [i \in 1..Len(hs) |-> HourStr(hs[i])],
                    !.last_seen = iso_time(date, hs[Len(hs)])]]

EarlierArchives(first, skip) ==
    [d \in {x \in 0..SlotDate(first) : SlotOf(x, 0) < first /\ \E h \in 0..23 : SlotOf(x, h) < first /\ SlotOf(x, h) \notin skip} |->
        FileOk(MergedHours(d, IF d < SlotDate(first) THEN 23 ELSE SlotHour(first) - 1, skip))]

EarlierHourly(first, skip) ==
    [sl \in (0..(first - 1)) \ skip |-> FileOk([entries |-> <<EntryA>>, local |-> FALSE, asof |-> sl])]

(* The summary update_daily_heat has built over those archives, one entry a day. *)
EarlierSummary(files) ==
    LET ds == SortedDates(DOMAIN files)
    IN  [i \in 1..Len(ds) |-> summarize_archive(ds[i], files[ds[i]].data)]

TickSteps == {15, 16}
(* Where a run starts: at 10:30 or at 23:50 of day 1, every earlier slot fetched. *)
StartStates ==
    { [now |-> SlotStart(SlotOf(1, 10)) + 30, skip |-> {}],
      [now |-> SlotStart(SlotOf(1, 23)) + 50, skip |-> {}] }

(* The scheduler not running, nothing on disk. *)
SchedIdle ==
    /\ now = 0 /\ ticks = 0 /\ pc = "off" /\ caller = "none" /\ pending = << >>
    /\ processed_any = FALSE /\ cur = 0 /\ topics = NoTopics /\ daily_data = << >>
    /\ wr = NoWrite /\ hourly = << >> /\ archive = << >> /\ summary = FileOk(<< >>)
    /\ postCache = << >> /\ exitCause = "none" /\ stopping = FALSE /\ restarts = 0 /\ faults = 0
    /\ trace = << >> /\ f_last = NoFetch /\ api = NoRequest

(* crawl_topic not running. *)
NoAttempts == [attempt |-> 0, log |-> << >>]

CrawlIdle ==
    /\ cr_pc = "idle" /\ cr_page = 0 /\ cr_st = CrawlStart({})
    /\ cr_p = [skip_ids |-> {}, top_n |-> TOP_N, max_pages |-> MAX_PAGES,
               min_score |-> MIN_SCORE, since |-> None]
    /\ cr_left = 0 /\ cr_more = FALSE
    /\ cr_result = NoPosts /\ cr_good = {}
    /\ cr_fetch = NoAttempts

(* ------------------------------------------------------------------ *)
(* A day's archive under merges and post refreshes                       *)
(* ------------------------------------------------------------------ *)
(* What the searches may answer with: a failed fetch, one post, two or three posts. *)
HashtagSources == {<<FailedPage>>, <<PageOf(<<"A">>)>>}
KeywordSources == {<<FailedPage>>, <<PageOf(<<"A", "B">>)>>, <<PageOf(<<"A", "B", "C">>)>>}

DetailPosts == {<< >>, <<[id |-> "detail-0", created |-> None, forwards |-> 1, comments |-> 0, likes |-> 0]>>}

RefreshEnvs == [hashtag : HashtagSources, keyword : KeywordSources, detail : DetailPosts]

NoAnswers == [hashtag |-> << >>, keyword |-> << >>, detail |-> << >>]

NoOp == [kind |-> "none", title |-> << >>, date |-> 0, hour |-> 0, pre |-> None,
         hot |-> 0, answers |-> NoAnswers, invoked |-> << >>, post_file |-> None,
         raw |-> << >>, ret |-> None]

ArchIdle == record_map = << >> /\ a_date = 0 /\ a_ops = 0 /\ a_last = NoOp

(* History: the posts each strategy would hand back for this record, asked alone. *)
StrategyAnswers(record, env) ==
    [ hashtag |-> crawl_topic(env.hashtag, RefreshParams(record)).items,
      keyword |-> crawl_topic(env.keyword, RefreshParams(record)).items,
      detail  |-> convert_detail_posts(env.detail, TOP_N) ]

ArchUpsert(D) ==
    /\ a_ops < MaxOps
    /\ \E topic \in Topics, d \in D, h \in Hours :
         LET title == Strip(topic.title) IN
         /\ record_map' = upsert_topic(record_map, topic, d, h)
         /\ a_last' = [NoOp EXCEPT !.kind = "upsert", !.title = title, !.date = d, !.hour = h,
                         !.hot = topic.hot, !.raw = topic.title,
                         !.ret = upsert_return(record_map, topic, d, h),
                         !.pre = IF title \in DOMAIN record_map THEN Some(record_map[title]) ELSE None]
    /\ a_ops' = a_ops + 1
    /\ UNCHANGED <<a_date, crawlVars, schedVars, auxVars>>

ArchRefresh(D) ==
    /\ a_ops < MaxOps
    /\ \E title \in DOMAIN record_map, d \in D, env \in RefreshEnvs :
         LET u == update_topic(title, record_map[title], d, env) IN
         /\ record_map' = [record_map EXCEPT ![title] = u.record]
         /\ a_last' = [NoOp EXCEPT !.kind = "refresh", !.title = title, !.date = d,
                         !.pre = Some(record_map[title]), !.invoked = u.invoked,
                         !.answers = StrategyAnswers(record_map[title], env),
                         !.post_file = Some(u.result)]
    /\ a_ops' = a_ops + 1
    /\ UNCHANGED <<a_date, crawlVars, schedVars, auxVars>>

(* upsert_topic and update_topic as functions: any date on any call. *)
InitArchive == CrawlIdle /\ SchedIdle /\ AuxIdle /\ record_map = << >> /\ a_date = 0 /\ a_ops = 0 /\ a_last = NoOp

NextArchive == ArchUpsert(Dates) \/ ArchRefresh(Dates)

SpecArchive == InitArchive /\ [][NextArchive]_vars

(* The archive of one day: every merge and refresh is made for the archive's date. *)
NextDay == ArchUpsert({a_date}) \/ ArchRefresh({a_date})

InitDay == CrawlIdle /\ SchedIdle /\ AuxIdle /\ record_map = << >> /\ a_date \in Dates /\ a_ops = 0 /\ a_last = NoOp

SpecDay == InitDay /\ [][NextDay]_vars

LastRecord == record_map[a_last.title]

LastUpsertMerged == a_last.kind = "upsert" /\ a_last.pre # None

(* C1: after any sequence of upsert_topic calls on an archive that started empty, no   *)
(* record's appeared_hours holds the same hour string twice; after a merge for an hour *)
(* (also a repeated one) the merged record holds that hour exactly once.               *)
C1_HoursNotDuplicated ==
    /\ \A t \in DOMAIN record_map : NoDup(record_map[t].appeared_hours)
    /\ (a_last.kind = "upsert" /\ a_last.title \in DOMAIN record_map)
          => Count(LastRecord.appeared_hours, HourStr(a_last.hour)) = 1

(* The same entry was merged again for a (date, hour) already merged. *)
C1_Witness ==
    /\ LastUpsertMerged
    /\ HourStr(a_last.hour) \in Range(a_last.pre[1].appeared_hours)
    /\ a_last.pre[1].last_seen = iso_time(a_last.date, a_last.hour)
    /\ a_last.pre[1].hot = a_last.hot
    /\ Count(LastRecord.appeared_hours, HourStr(a_last.hour)) = 1

(* C9: after upsert_topic on an existing record with a date different from the record's *)
(* last_post_refresh, needs_refresh is true, whatever it was before.                    *)
C9_NewDateNeedsRefresh ==
    (LastUpsertMerged /\ a_last.pre[1].last_post_refresh # Some(a_last.date))
        => LastRecord.needs_refresh = TRUE

(* A record refreshed with posts on an earlier date is merged on another date. *)
C9_Witness ==
    /\ LastUpsertMerged
    /\ a_last.pre[1].last_post_refresh # None
    /\ a_last.pre[1].last_post_refresh # Some(a_last.date)
    /\ a_last.pre[1].needs_refresh = FALSE
    /\ LastRecord.needs_refresh = TRUE

StrategyOrder == <<"hashtag", "keyword", "detail">>

(* C7: update_topic invokes hashtag crawl, keyword crawl, topic-detail fallback in that *)
(* order, each one exactly when every earlier one came back empty, and the persisted    *)
(* result is the post list of the first strategy that came back non-empty; with an      *)
(* empty hashtag crawl and 3 keyword posts the result is those 3 and the fallback is    *)
(* not invoked.                                                                         *)
C7_FirstNonEmptyWins ==
    a_last.kind = "refresh" =>
        LET ans == a_last.answers
            inv == a_last.invoked
            res == LastRecord.latest_posts.items
        IN  /\ inv = SubSeq(StrategyOrder, 1, Len(inv))
            /\ Len(inv) >= 1
            /\ "keyword" \in Range(inv) <=> ans.hashtag = << >>
            /\ "detail" \in Range(inv) <=> (ans.hashtag = << >> /\ ans.keyword = << >>)
            /\ LastRecord.latest_posts.present
            /\ res = IF ans.hashtag # << >> THEN ans.hashtag
                     ELSE IF ans.keyword # << >> THEN ans.keyword
                     ELSE ans.detail
            /\ (ans.hashtag = << >> /\ Len(ans.keyword) = 3)
                  => (res = ans.keyword /\ "detail" \notin Range(inv))

(* The hashtag crawl is empty, the keyword crawl has 3 posts, the topic page has one. *)
C7_Witness ==
    /\ a_last.kind = "refresh"
    /\ a_last.answers.hashtag = << >>
    /\ Len(a_last.answers.keyword) = 3
    /\ a_last.answers.detail # << >>
    /\ a_last.invoked = <<"hashtag", "keyword">>
    /\ LastRecord.latest_posts.items = a_last.answers.keyword

(* C10: in a day's archive a record with needs_refresh = false has last_post_refresh  *)
(* equal to the archive's date and a latest_posts result with at least one post, and  *)
(* needs_refresh goes from true to false only in a refresh that yielded a post.       *)
C10_FreshMeansPostsToday ==
    /\ \A t \in DOMAIN record_map :
          ~record_map[t].needs_refresh =>
              /\ record_map[t].last_post_refresh = Some(a_date)
              /\ record_map[t].latest_posts.present
              /\ Len(record_map[t].latest_posts.items) >= 1
    /\ (a_last.pre # None /\ a_last.pre[1].needs_refresh /\ ~LastRecord.needs_refresh)
          => (a_last.kind = "refresh" /\ Len(LastRecord.latest_posts.items) >= 1)

(* A refresh with posts cleared the flag, and a later merge of the day left it cleared. *)
C10_Witness ==
    /\ LastUpsertMerged
    /\ a_last.date = a_date
    /\ ~a_last.pre[1].needs_refresh
    /\ ~LastRecord.needs_refresh
    /\ Len(LastRecord.latest_posts.items) >= 1

(* ------------------------------------------------------------------ *)
(* crawl_topic as a state machine: fetch a page, read its cards, sort    *)
(* ------------------------------------------------------------------ *)
PageLimits == {1, 2}

(* One representative for the cards whose other fields are never read. *)
ModelCards ==
    {c \in Cards :
        /\ (~c.type9 \/ c.id = "") => (~c.hasTerm /\ c.likes = 0 /\ c.created = None /\ c.id = "")}

CrawlParamSet ==
    [ skip_ids : {{}, {"A"}, {"A", "B"}},
      top_n : {1, TOP_N},
      max_pages : PageLimits,
      min_score : {MIN_SCORE, 6},
      since : {None, Some(2)} ]

(* The content tests of the loop body: hashtag present, not too old, score high enough. *)
GoodCard(c, p) ==
    /\ c.type9 /\ c.id # "" /\ c.hasTerm
    /\ ~(p.since # None /\ c.created # None /\ c.created[1] < p.since[1])
    /\ 6 * c.likes + 3 * c.comments + c.reposts >= p.min_score

InitCrawl ==
    /\ ArchIdle /\ SchedIdle /\ AuxIdle
    /\ cr_p \in CrawlParamSet
    /\ cr_pc = "page"
    /\ cr_page = 1
    /\ cr_st = CrawlStart(cr_p.skip_ids)
    /\ cr_left = 0 /\ cr_more = FALSE
    /\ cr_result = NoPosts
    /\ cr_good = {}
    /\ cr_fetch = NoAttempts

(* After a page: break, or go on to the next page of range(1, max_pages + 1). *)
CrawlAfterPage(stop) ==
    IF stop \/ cr_page + 1 > cr_p.max_pages
    THEN cr_pc' = "sort" /\ cr_page' = cr_page
    ELSE cr_pc' = "page" /\ cr_page' = cr_page + 1

(* fetch_page failed: data is None, the loop breaks. *)
CrawlFetchFailed ==
    /\ cr_pc = "page"
    /\ \E e \in {"http_403", "http_500", "ok=0"} :
         cr_st' = CrawlPageHead(cr_st, cr_page, FALSE, Some(e), 0)
    /\ cr_pc' = "sort"
    /\ UNCHANGED <<cr_page, cr_p, cr_left, cr_more, cr_result, cr_good, cr_fetch, archVars, schedVars, auxVars>>

(* fetch_page answered with a payload of n cards and its cardlistInfo.page. *)
CrawlFetched ==
    /\ cr_pc = "page"
    /\ \E n \in 0..MaxPageCards, more \in BOOLEAN :
         /\ cr_st' = CrawlPageHead(cr_st, cr_page, TRUE, None, n)
         /\ cr_left' = n
         /\ cr_more' = more
         /\ IF n = 0 THEN CrawlAfterPage(TRUE) ELSE cr_pc' = "cards" /\ cr_page' = cr_page
    /\ UNCHANGED <<cr_p, cr_result, cr_good, cr_fetch, archVars, schedVars, auxVars>>

(* One iteration of the loop over the page's cards. *)
CrawlReadCard ==
    /\ cr_pc = "cards"
    /\ \E card \in ModelCards :
         /\ cr_st' = CrawlCard(cr_st, card, cr_p)
         /\ cr_good' = IF GoodCard(card, cr_p) THEN cr_good \cup {card.id} ELSE cr_good
    /\ cr_left' = cr_left - 1
    /\ IF cr_left = 1 THEN CrawlAfterPage(~cr_more) ELSE cr_pc' = "cards" /\ cr_page' = cr_page
    /\ UNCHANGED <<cr_p, cr_more, cr_result, cr_fetch, archVars, schedVars, auxVars>>

CrawlFinish ==
    /\ cr_pc = "sort"
    /\ cr_result' = CrawlResult(cr_st, cr_p)
    /\ cr_pc' = "done"
    /\ UNCHANGED <<cr_page, cr_st, cr_p, cr_left, cr_more, cr_good, cr_fetch, archVars, schedVars, auxVars>>

NextCrawl == CrawlFetchFailed \/ CrawlFetched \/ CrawlReadCard \/ CrawlFinish

SpecCrawl == InitCrawl /\ [][NextCrawl]_vars

ItemIds(items) == {items[i].id : i \in 1..Len(items)}

(* C8: no returned item has an identifier of skip_ids, no identifier is returned  *)
(* twice, every returned identifier belongs to a card that passed the content     *)
(* tests, and when top_n does not truncate the result holds exactly the passing   *)
(* identifiers outside skip_ids (skip {A,B}, cards A, B, C read: exactly {C}).    *)
C8_DedupCorrect ==
    cr_pc = "done" =>
        /\ ItemIds(cr_result.items) \cap cr_p.skip_ids = {}
        /\ NoDup([i \in 1..Len(cr_result.items) |-> cr_result.items[i].id])
        /\ ItemIds(cr_result.items) \subseteq cr_good \ cr_p.skip_ids
        /\ Cardinality(cr_good \ cr_p.skip_ids) <= cr_p.top_n
              => ItemIds(cr_result.items) = cr_good \ cr_p.skip_ids

C8_Witness ==
    /\ cr_pc = "done"
    /\ cr_p.skip_ids = {"A", "B"}
    /\ cr_good = {"A", "B", "C"}
    /\ cr_st.rejections["skip_list"] >= 2
    /\ ItemIds(cr_result.items) = {"C"}

(* ------------------------------------------------------------------ *)
(* HourlyBackfillScheduler: run_loop, process_hour and the files         *)
(* ------------------------------------------------------------------ *)
NowSlot(t) == SlotOf(NowDate(t), NowHour(t))

InitSched ==
    /\ CrawlIdle /\ ArchIdle /\ AuxIdle
    /\ \E start \in StartStates :
         /\ now = start.now
         /\ hourly = EarlierHourly(NowSlot(start.now), start.skip)
         /\ archive = EarlierArchives(NowSlot(start.now), start.skip)
    /\ summary = FileOk(EarlierSummary(archive))
    /\ postCache = << >>
    /\ ticks = 0 /\ pc = "boot" /\ caller = "none" /\ pending = << >>
    /\ processed_any = FALSE /\ cur = 0 /\ topics = NoTopics /\ daily_data = << >>
    /\ wr = NoWrite /\ exitCause = "none" /\ stopping = FALSE /\ restarts = 0 /\ faults = 0
    /\ trace = << >> /\ f_last = NoFetch /\ api = NoRequest

Frame == UNCHANGED <<crawlVars, archVars, api, auxVars>>
FilesSame == UNCHANGED <<hourly, archive, summary, postCache>>
ClockSame == UNCHANGED <<now, ticks>>
CallSame == UNCHANGED <<caller, pending, processed_any, cur>>
RunSame == UNCHANGED <<exitCause, stopping, restarts>>

(* An error of the environment (disk, network, a kill): one more of the MaxFaults allowed. *)
Fault == faults < MaxFaults /\ faults' = faults + 1
NoFault == UNCHANGED faults

(* run_loop ends: its memory is gone, the files stay as they are. *)
Die(cause) ==
    /\ pc' = "dead" /\ exitCause' = cause
    /\ caller' = "none" /\ pending' = << >> /\ processed_any' = FALSE /\ cur' = 0
    /\ topics' = NoTopics /\ daily_data' = << >> /\ wr' = NoWrite /\ stopping' = FALSE
    /\ trace' = << >> /\ f_last' = NoFetch
    /\ UNCHANGED restarts

(* An exception nothing catches leaves process_hour, the worker thread and run_loop. *)
Raise == Die(IF stopping THEN "shutdown" ELSE "exception")

(* process_latest_hour(force=True): the current hour, whatever is on disk *)
ProcessLatestHour ==
    /\ pc = "boot"
    /\ pc' = "fetch" /\ caller' = "boot" /\ cur' = NowSlot(now) /\ trace' = << >>
    /\ UNCHANGED <<pending, processed_any, topics, daily_data, wr, f_last>>
    /\ RunSame /\ NoFault /\ FilesSame /\ ClockSame /\ Frame

(* process_pending_hours: collect the pending slots and start on the first *)
ProcessPendingHours ==
    /\ pc = "cycle"
    /\ LET pend == collect_pending_hours(hourly, now) IN
       IF pend = << >>
       THEN pc' = "sleep" /\ UNCHANGED <<cur, pending, caller>>
       ELSE pc' = "fetch" /\ cur' = Head(pend) /\ pending' = Tail(pend) /\ caller' = "pending"
    /\ processed_any' = FALSE
    /\ UNCHANGED <<topics, daily_data, wr, trace, f_last>>
    /\ RunSame /\ NoFault /\ FilesSame /\ ClockSame /\ Frame

(* fetch_topics_with_fallback, _maybe_fetch_local, fetch_local_topics_with_logging *)
(* fetch_topics_with_fallback. fetch_hour_topics sends one requests.get and raises  *)
(* on its failure: requests counts the remote requests of the call.                 *)
FetchTopics ==
    /\ pc = "fetch"
    /\ \E remote \in {"topics", "empty", "error"} :
         IF remote = "topics"
         THEN /\ topics' = [entries |-> RemoteTopics, local |-> FALSE, asof |-> cur]
              /\ f_last' = [slot |-> cur, at |-> now, remote |-> remote, local |-> "not_invoked",
                           requests |-> 1]
              /\ pc' = "snapshot"
         ELSE IF ~should_trigger_local(cur, now)
         THEN /\ topics' = NoTopics
              /\ f_last' = [slot |-> cur, at |-> now, remote |-> remote, local |-> "not_invoked",
                           requests |-> 1]
              /\ pc' = "ret_false"
         ELSE \E local \in {"topics", "empty", "raise"} :
                /\ f_last' = [slot |-> cur, at |-> now, remote |-> remote, local |-> local,
                             requests |-> 1]
                /\ IF local = "topics"
                   THEN /\ topics' = [entries |-> LocalTopics, local |-> TRUE, asof |-> NowSlot(now)]
                        /\ pc' = "snapshot"
                   ELSE topics' = NoTopics /\ pc' = "ret_false"
    /\ UNCHANGED <<daily_data, wr, trace>>
    /\ CallSame /\ RunSame /\ NoFault /\ FilesSame /\ ClockSame /\ Frame

(* update_hourly_archive: path.write_text opens (truncates) the file, or fails to *)
UpdateHourlyArchive ==
    /\ pc = "snapshot"
    /\ \/ /\ hourly' = WriteFile(hourly, cur, FilePartial)
          /\ wr' = [busy |-> TRUE, file |-> "hourly", key |-> cur, data |-> topics,
                    step |-> "snapshot", caught |-> FALSE]
          /\ pc' = "writing" /\ f_last' = NoFetch
          /\ UNCHANGED <<topics, daily_data, trace>>
          /\ CallSame /\ RunSame /\ NoFault
       \/ Fault /\ Raise /\ UNCHANGED hourly
    /\ UNCHANGED <<archive, summary, postCache>>
    /\ ClockSame /\ Frame

(* Mutant: the heat summary is aggregated after the post refresh. *)
StepAfterHeatLast(step) ==
    CASE step = "snapshot" -> "merge"
      [] step = "merge" -> "refresh"
      [] step = "refresh" -> "heat"
      [] step = "heat" -> "collect"
      [] step = "collect" -> "export"
      [] step = "export" -> "ret_true"

(* The order of the calls in process_hour and, within it, in update_daily_archive. *)
StepAfter(step) ==
    CASE step = "snapshot" -> "merge"
      [] step = "merge" -> "heat"
      [] step = "heat" -> "refresh"
      [] step = "refresh" -> "collect"
      [] step = "collect" -> "export"
      [] step = "export" -> "ret_true"

(* The write goes through: the file holds the new content. *)
WriteDone ==
    /\ pc = "writing" /\ wr.busy
    /\ IF wr.file = "hourly"
       THEN hourly' = WriteFile(hourly, wr.key, FileOk(wr.data)) /\ UNCHANGED archive
       ELSE archive' = WriteFile(archive, wr.key, FileOk(wr.data)) /\ UNCHANGED hourly
    /\ pc' = StepAfter(wr.step) /\ wr' = NoWrite /\ trace' = Append(trace, wr.step)
    /\ UNCHANGED <<topics, daily_data, f_last, summary, postCache>>
    /\ CallSame /\ RunSame /\ NoFault /\ ClockSame /\ Frame

(* The write fails half way (OSError): the truncated file stays. *)
WriteFailed ==
    /\ pc = "writing" /\ wr.busy
    /\ Fault
    /\ IF wr.caught
       THEN /\ pc' = StepAfter(wr.step) /\ wr' = NoWrite /\ trace' = Append(trace, wr.step)
            /\ UNCHANGED <<topics, daily_data, f_last>>
            /\ CallSame /\ RunSame
       ELSE Raise
    /\ FilesSame /\ ClockSame /\ Frame

RECURSIVE UpsertAll(_, _, _, _)
UpsertAll(rm, entries, date, hour) ==
    IF entries = << >> THEN rm
    ELSE UpsertAll(upsert_topic(rm, Head(entries), date, hour), Tail(entries), date, hour)

(* load_daily_archive: {} when there is no file; json.loads fails on a truncated file *)
Loadable(date) == date \in DOMAIN archive => archive[date].state = "ok"
Loaded(date) == IF date \in DOMAIN archive THEN archive[date].data ELSE << >>

(* update_daily_archive up to its save: load, upsert every entry, fetch the AI cards *)
MergeTopics ==
    /\ pc = "merge"
    /\ \/ /\ Loadable(SlotDate(cur))
          /\ daily_data' = UpsertAll(Loaded(SlotDate(cur)), topics.entries, SlotDate(cur), SlotHour(cur))
          /\ pc' = "save"
          /\ UNCHANGED <<topics, wr, trace, f_last>>
          /\ CallSame /\ RunSame /\ NoFault
       \/ /\ IF Loadable(SlotDate(cur)) THEN Fault ELSE NoFault
          /\ Raise
    /\ FilesSame /\ ClockSame /\ Frame

(* save_daily_archive: path.write_text opens (truncates) the file, or fails to *)
SaveDailyArchive ==
    /\ pc = "save"
    /\ \/ /\ archive' = WriteFile(archive, SlotDate(cur), FilePartial)
          /\ wr' = [busy |-> TRUE, file |-> "archive", key |-> SlotDate(cur), data |-> daily_data,
                    step |-> "merge", caught |-> FALSE]
          /\ pc' = "writing"
          /\ UNCHANGED <<topics, daily_data, trace, f_last>>
          /\ CallSame /\ RunSame /\ NoFault
       \/ Fault /\ Raise /\ UNCHANGED archive
    /\ UNCHANGED <<hourly, summary, postCache>>
    /\ ClockSame /\ Frame

(* the try/except around update_daily_heat in update_daily_archive *)
UpdateDailyHeat ==
    /\ pc = "heat"
    /\ \/ /\ summary' = FileOk(update_daily_heat(IF summary.state = "ok" THEN summary.data ELSE << >>,
                                                SlotDate(cur), daily_data))
          /\ NoFault
       \/ summary' = FilePartial /\ Fault
    /\ pc' = StepAfter("heat") /\ trace' = Append(trace, "heat")
    /\ UNCHANGED <<topics, daily_data, wr, f_last, hourly, archive, postCache>>
    /\ CallSame /\ RunSame /\ ClockSame /\ Frame

(* What update_topic meets for the records needing a refresh: no post, a post, an error. *)
RefreshChoices(rm) ==
    {[t \in DOMAIN rm |-> IF rm[t].needs_refresh THEN answer ELSE "skip"] :
        answer \in {"empty", "posts", "raise"}}

RefreshedWith(rm, date, choice) ==
    [t \in DOMAIN rm |->
        IF choice[t] \in {"skip", "raise"} THEN rm[t]
        ELSE update_topic(t, rm[t], date, IF choice[t] = "posts" THEN EnvPosts ELSE EnvEmpty).record]

(* _refresh_posts_if_needed: refresh_posts_for_date(date, MAX_TOPICS_PER_RUN) in a try/except *)
RefreshPostsIfNeeded ==
    /\ pc = "refresh"
    /\ LET date == SlotDate(cur)
           readable == date \in DOMAIN archive /\ archive[date].state = "ok"
       IN  \/ /\ readable
              /\ \E choice \in RefreshChoices(archive[date].data) :
                   wr' = [busy |-> TRUE, file |-> "archive", key |-> date,
                          data |-> RefreshedWith(archive[date].data, date, choice),
                          step |-> "refresh", caught |-> TRUE]
              /\ archive' = WriteFile(archive, date, FilePartial)
              /\ pc' = "writing" /\ UNCHANGED trace /\ NoFault
           \/ /\ IF readable THEN Fault ELSE NoFault
              /\ pc' = StepAfter("refresh") /\ trace' = Append(trace, "refresh")
              /\ UNCHANGED <<archive, wr>>
    /\ UNCHANGED <<topics, daily_data, f_last, hourly, summary, postCache>>
    /\ CallSame /\ RunSame /\ ClockSame /\ Frame

(* The titles _collect_hourly_posts walks: the first HOURLY_POST_LIMIT entries, *)
(* those with a title and a record in the archive.                              *)
CollectTitles(entries, rm) ==
    {Strip(entries[i].title) : i \in {j \in 1..Len(entries) : j <= HOURLY_POST_LIMIT}} \cap DOMAIN rm

CacheFresh(cache, key, t) ==
    key \in DOMAIN cache /\ 60 * (t - cache[key]) <= HOURLY_POST_CACHE_TTL_SECONDS

(* ensure_topic_posts: the record as it is, or the record update_topic returns. *)
EnsureTopicPosts(title, record, date, answer) ==
    IF answer = "keep" THEN record
    ELSE update_topic(title, record, date, IF answer = "posts" THEN EnvPosts ELSE EnvEmpty).record

(* _collect_hourly_posts: cached payloads are reused, the others fetched; the *)
(* archive is saved when a record was fetched.                                 *)
CollectHourlyPosts ==
    /\ pc = "collect"
    /\ LET date == SlotDate(cur) IN
       \/ /\ Loadable(date)
          /\ LET rm == Loaded(date)
                 stale == {t \in CollectTitles(topics.entries, rm) : ~CacheFresh(postCache, <<cur, t>>, now)}
             IN  IF stale = {}
                 THEN /\ pc' = StepAfter("collect") /\ trace' = Append(trace, "collect")
                      /\ UNCHANGED <<archive, wr, postCache>>
                 ELSE \E answer \in {"keep", "empty", "posts"} :
                        /\ postCache' = [k \in DOMAIN postCache \cup {<<cur, t>> : t \in stale} |->
                                            IF k[2] \in stale /\ k[1] = cur THEN now ELSE postCache[k]]
                        /\ archive' = WriteFile(archive, date, FilePartial)
                        /\ wr' = [busy |-> TRUE, file |-> "archive", key |-> date,
                                  data |-> [t \in DOMAIN rm |->
                                              IF t \in stale THEN EnsureTopicPosts(t, rm[t], date, answer)
                                              ELSE rm[t]],
                                  step |-> "collect", caught |-> FALSE]
                        /\ pc' = "writing" /\ UNCHANGED trace
          /\ UNCHANGED <<topics, daily_data, f_last>>
          /\ CallSame /\ RunSame /\ NoFault
       \/ /\ IF Loadable(date) THEN Fault ELSE NoFault
          /\ Raise /\ UNCHANGED <<archive, postCache>>
    /\ UNCHANGED <<hourly, summary>>
    /\ ClockSame /\ Frame

(* _export_hourly_posts: the two export files are written, or an error leaves *)
ExportHourlyPosts ==
    /\ pc = "export"
    /\ \/ /\ Loadable(SlotDate(cur))
          /\ pc' = StepAfter("export") /\ trace' = Append(trace, "export")
          /\ UNCHANGED <<topics, daily_data, wr, f_last>>
          /\ CallSame /\ RunSame /\ NoFault
       \/ /\ IF Loadable(SlotDate(cur)) THEN Fault ELSE NoFault
          /\ Raise
    /\ FilesSame /\ ClockSame /\ Frame

(* process_hour returns: back in process_latest_hour or in the loop of process_pending_hours *)
ProcessHourReturns ==
    /\ pc \in {"ret_true", "ret_false"}
    /\ IF caller = "pending" /\ pending # << >>
       THEN /\ pc' = "fetch" /\ cur' = Head(pending) /\ pending' = Tail(pending)
            /\ processed_any' = (processed_any \/ pc = "ret_true")
            /\ topics' = NoTopics /\ daily_data' = << >>
            /\ trace' = << >> /\ f_last' = NoFetch
            /\ UNCHANGED <<caller, wr>> /\ RunSame
       ELSE IF stopping
       THEN Die("shutdown")
       ELSE /\ pc' = IF caller = "boot" THEN "cycle" ELSE "sleep"
            /\ processed_any' = (caller = "pending" /\ (processed_any \/ pc = "ret_true"))
            /\ topics' = NoTopics /\ daily_data' = << >>
            /\ trace' = << >> /\ f_last' = NoFetch
            /\ UNCHANGED <<caller, pending, cur, wr>> /\ RunSame
    /\ NoFault /\ FilesSame /\ ClockSame /\ Frame

(* asyncio.sleep(RECENT_RETRY_SECONDS if processed else POLL_INTERVAL_SECONDS) *)
SleepMinutes(processed) == IF processed THEN RECENT_RETRY_SECONDS \div 60 ELSE POLL_INTERVAL_SECONDS \div 60

Sleep ==
    /\ pc = "sleep" /\ ticks < MaxTicks
    /\ now' = now + SleepMinutes(processed_any) /\ ticks' = ticks + 1
    /\ pc' = "cycle"
    /\ UNCHANGED <<topics, daily_data, wr, trace, f_last>>
    /\ CallSame /\ RunSame /\ NoFault /\ FilesSame /\ Frame

(* Time passes while process_hour waits for a source. *)
Tick ==
    /\ pc = "fetch" /\ ticks < MaxTicks
    /\ \E d \in TickSteps : now' = now + d
    /\ ticks' = ticks + 1
    /\ UNCHANGED <<pc, topics, daily_data, wr, trace, f_last>>
    /\ CallSame /\ RunSame /\ NoFault /\ FilesSame /\ Frame

(* KeyboardInterrupt: main returns; a worker thread in process_hour runs on to its return. *)
Shutdown ==
    /\ pc \notin {"dead", "off"} /\ ~stopping
    /\ IF pc \in {"boot", "cycle", "sleep"}
       THEN Die("shutdown")
       ELSE /\ stopping' = TRUE
            /\ UNCHANGED <<pc, topics, daily_data, wr, exitCause, restarts, trace, f_last>>
            /\ CallSame
    /\ NoFault /\ FilesSame /\ ClockSame /\ Frame

(* The process is killed: whatever a write had put on disk stays. *)
Crash ==
    /\ pc \notin {"dead", "off"}
    /\ Fault
    /\ Die("crash")
    /\ FilesSame /\ ClockSame /\ Frame

(* The monitor is started again, some time later, over the files the last run left. *)
Restart ==
    /\ pc = "dead" /\ restarts < MaxRestarts /\ ticks < MaxTicks
    /\ \E d \in TickSteps : now' = now + d
    /\ ticks' = ticks + 1
    /\ pc' = "boot" /\ exitCause' = "none" /\ restarts' = restarts + 1
    /\ UNCHANGED <<topics, daily_data, wr, stopping, trace, f_last>>
    /\ CallSame /\ NoFault /\ FilesSame /\ Frame

Init == InitSched

Next ==
    \/ ProcessLatestHour
    \/ ProcessPendingHours
    \/ FetchTopics
    \/ UpdateHourlyArchive
    \/ WriteDone
    \/ WriteFailed
    \/ MergeTopics
    \/ SaveDailyArchive
    \/ UpdateDailyHeat
    \/ RefreshPostsIfNeeded
    \/ CollectHourlyPosts
    \/ ExportHourlyPosts
    \/ ProcessHourReturns
    \/ Sleep
    \/ Tick
    \/ Shutdown
    \/ Crash
    \/ Restart

Spec == Init /\ [][Next]_vars

(* ------------------------------------------------------------------ *)
(* Properties of the scheduler                                           *)
(* ------------------------------------------------------------------ *)

(* C2: no error raised while a slot is processed ends run_loop; only an *)
(* external shutdown (or a kill of the process) does.                    *)
C2_LoopSurvivesErrors == exitCause # "exception"

CodeOrder == <<"snapshot", "merge", "heat", "refresh", "collect", "export">>
ClaimedOrder == <<"snapshot", "merge", "refresh", "heat">>

IsPrefix(a, b) == Len(a) <= Len(b) /\ \A i \in 1..Len(a) : a[i] = b[i]
Only(seq, names) == SelectSeq(seq, LAMBDA x : x \in names)

SlotMerged(s) ==
    LET d == SlotDate(s) IN
    /\ hourly[s].state = "ok"
    /\ d \in DOMAIN archive /\ archive[d].state = "ok"
    /\ \A i \in 1..Len(hourly[s].data.entries) :
         LET title == Strip(hourly[s].data.entries[i].title) IN
         title # << >> =>
            /\ title \in DOMAIN archive[d].data
            /\ HourStr(SlotHour(s)) \in Range(archive[d].data[title].appeared_hours)

(* C4: when run_loop is between slots, or has ended on an error, every    *)
(* slot collect_pending_hours no longer returns (its snapshot file is     *)
(* there) has its entries durably merged into the day's archive.          *)
C4_FetchedMeansMerged ==
    (pc \in {"cycle", "sleep"} \/ (pc = "dead" /\ exitCause = "exception"))
        => \A s \in DOMAIN hourly : SlotMerged(s)

(* C5: after a crash every archive file is complete and loadable. *)
C5_CrashKeepsArchiveLoadable ==
    (pc = "dead" /\ exitCause = "crash") => \A d \in DOMAIN archive : archive[d].state = "ok"

(* The escalation gate in words: 45 minutes past the top of the hour, or a later hour or day. *)
ClaimGate(s, t) == t - SlotStart(s) >= LOCAL_FALLBACK_THRESHOLD_MINUTES \/ NowSlot(t) > s

RemoteGaveNothing == f_last.remote \in {"empty", "error"}
LocalInvoked == f_last.local \in {"topics", "empty", "raise"}

(* C6: when the remote source fails or returns nothing, the local source  *)
(* is invoked iff the time is at least 45 minutes past the slot's top of   *)
(* hour or the day or hour is past the slot (hour 10: not at 10:30, yes at *)
(* 10:46); it is never invoked when the remote source returned entries,    *)
(* nor for a slot whose hour has not started.                              *)
C6_LocalOnlyThroughGate ==
    /\ f_last.remote = "topics" => ~LocalInvoked
    /\ RemoteGaveNothing => (LocalInvoked <=> ClaimGate(f_last.slot, f_last.at))
    /\ RemoteGaveNothing /\ SlotHour(f_last.slot) = 10 /\ f_last.at = SlotStart(f_last.slot) + 30
          => ~LocalInvoked
    /\ RemoteGaveNothing /\ SlotHour(f_last.slot) = 10 /\ f_last.at = SlotStart(f_last.slot) + 46
          => LocalInvoked
    /\ \A s \in (NowSlot(now) + 1)..(NowSlot(now) + 2) : ~should_trigger_local(s, now)

C6_Witness ==
    /\ RemoteGaveNothing /\ LocalInvoked
    /\ SlotHour(f_last.slot) = 10 /\ f_last.at = SlotStart(f_last.slot) + 46

(* ------------------------------------------------------------------ *)
(* Downstream consumers: the HTTP query layer and the broadcaster, in    *)
(* their own processes next to the scheduler                             *)
(* ------------------------------------------------------------------ *)
MaxRequests == 1

ApiSame == UNCHANGED <<now, ticks, pc, caller, pending, processed_any, cur, topics, daily_data, wr,
                       hourly, postCache, exitCause, stopping, restarts, faults, trace, f_last>>

(* _load_post_payload: data/posts/<date>/<slug>.json is there once update_topic *)
(* has run for the record on that date.                                         *)
HasPostPayload(rm, title, date) == title \in DOMAIN rm /\ rm[title].last_post_refresh = Some(date)

(* topic_posts: the post file is there, or the archive is missing or unreadable, *)
(* or holds no such title: the handler answers from what it read.                *)
ApiTopicPostsRead ==
    /\ api.pc = "idle" /\ api.served < MaxRequests
    /\ \E date \in DOMAIN archive :
         \/ archive[date].state # "ok"
         \/ \E title \in DOMAIN archive[date].data : HasPostPayload(archive[date].data, title, date)
    /\ api' = [api EXCEPT !.served = @ + 1]
    /\ UNCHANGED <<archive, summary>>
    /\ ApiSame /\ UNCHANGED <<crawlVars, archVars, auxVars>>

(* topic_posts, no post file: archive = load_archive(date), the record is located *)
ApiLoadArchive ==
    /\ api.pc = "idle" /\ api.served < MaxRequests
    /\ \E date \in DOMAIN archive :
         /\ archive[date].state = "ok"
         /\ \E title \in DOMAIN archive[date].data :
              /\ ~HasPostPayload(archive[date].data, title, date)
              /\ api' = [api EXCEPT !.pc = "ensure", !.date = date, !.title = title,
                                    !.data = archive[date].data]
    /\ UNCHANGED <<archive, summary>>
    /\ ApiSame /\ UNCHANGED <<crawlVars, archVars, auxVars>>

(* _ensure_posts_exist: ensure_topic_posts on the loaded record, the record is put *)
(* back into the loaded archive, save_archive opens (truncates) the file.          *)
ApiEnsurePostsExist ==
    /\ api.pc = "ensure"
    /\ \E answer \in {"posts", "raise"} :
         IF answer = "raise"
         THEN /\ api' = [api EXCEPT !.pc = "idle", !.data = << >>, !.title = << >>, !.date = 0,
                                    !.served = @ + 1]
              /\ UNCHANGED archive
         ELSE /\ api' = [api EXCEPT !.pc = "saving",
                           !.data = [api.data EXCEPT ![api.title] =
                                        EnsureTopicPosts(api.title, api.data[api.title], api.date, answer)]]
              /\ archive' = WriteFile(archive, api.date, FilePartial)
    /\ UNCHANGED summary
    /\ ApiSame /\ UNCHANGED <<crawlVars, archVars, auxVars>>

(* save_archive: write_text completes, the file holds the archive the handler loaded *)
ApiSaveArchive ==
    /\ api.pc = "saving"
    /\ archive' = WriteFile(archive, api.date, FileOk(api.data))
    /\ api' = [api EXCEPT !.pc = "idle", !.data = << >>, !.title = << >>, !.date = 0, !.served = @ + 1]
    /\ UNCHANGED summary
    /\ ApiSame /\ UNCHANGED <<crawlVars, archVars, auxVars>>

(* What the remote repository holds of a day without a readable archive: nothing, *)
(* or the list of hour 0.                                                         *)
RemoteDaily(date, answer) ==
    IF answer = "topics" THEN UpsertAll(<< >>, RemoteTopics, date, 0) ELSE << >>

(* rebuild_summary: the archive files after the call (fetch_remote_daily_archive *)
(* writes the archive of a day whose file was unreadable).                       *)
RebuiltArchives(files, answer) ==
    [d \in DOMAIN files |->
        IF files[d].state = "ok" \/ RemoteDaily(d, answer) = << >> THEN files[d]
        ELSE FileOk(RemoteDaily(d, answer))]

(* rebuild_summary: one entry for every day with archive data, in date order *)
rebuild_summary(files, today) ==
    LET days == SortedDates({d \in DOMAIN files :
                    d <= today /\ d > today - MAX_DAYS /\ files[d].state = "ok" /\ files[d].data # << >>})
    IN  [i \in 1..Len(days) |-> summarize_archive(days[i], files[days[i]].data)]

(* daily_heat: with refresh=1 the summary is rebuilt and stored, then it is served *)
ApiDailyHeat ==
    /\ api.pc = "idle" /\ api.served < MaxRequests
    /\ \E refresh \in BOOLEAN, answer \in {"none", "topics"} :
         IF refresh
         THEN /\ archive' = RebuiltArchives(archive, answer)
              /\ summary' = IF rebuild_summary(archive', NowDate(now)) = << >> THEN summary
                            ELSE FileOk(rebuild_summary(archive', NowDate(now)))
         ELSE answer = "none" /\ UNCHANGED <<archive, summary>>
    /\ api' = [api EXCEPT !.served = @ + 1]
    /\ ApiSame /\ UNCHANGED <<crawlVars, archVars, auxVars>>

(* get_snapshot(): the latest hourly snapshot that can be read *)
LatestSnapshot ==
    LET ok == {sl \in DOMAIN hourly : hourly[sl].state = "ok"}
    IN  IF ok = {} THEN None ELSE Some(CHOOSE sl \in ok : \A o \in ok : o <= sl)

(* _broadcast_loop: a snapshot with a new version is sent to the clients *)
Broadcast ==
    /\ LatestSnapshot # None /\ LatestSnapshot # api.version
    /\ api' = [api EXCEPT !.version = LatestSnapshot]
    /\ UNCHANGED <<archive, summary>>
    /\ ApiSame /\ UNCHANGED <<crawlVars, archVars, auxVars>>

(* A run of the scheduler that finds hour 9 of day 1 not fetched. *)
ServeStart == [now |-> SlotStart(SlotOf(1, 10)) + 30, skip |-> {SlotOf(1, 9)}]

InitServe ==
    /\ CrawlIdle /\ ArchIdle /\ AuxIdle
    /\ now = ServeStart.now
    /\ hourly = EarlierHourly(NowSlot(ServeStart.now), ServeStart.skip)
    /\ archive = EarlierArchives(NowSlot(ServeStart.now), ServeStart.skip)
    /\ summary = FileOk(EarlierSummary(archive))
    /\ postCache = << >>
    /\ ticks = 0 /\ pc = "boot" /\ caller = "none" /\ pending = << >>
    /\ processed_any = FALSE /\ cur = 0 /\ topics = NoTopics /\ daily_data = << >>
    /\ wr = NoWrite /\ exitCause = "none" /\ stopping = FALSE /\ restarts = 0 /\ faults = MaxFaults
    /\ trace = << >> /\ f_last = NoFetch /\ api = NoRequest

NextServe ==
    \/ ProcessLatestHour
    \/ ProcessPendingHours
    \/ FetchTopics
    \/ UpdateHourlyArchive
    \/ WriteDone
    \/ MergeTopics
    \/ SaveDailyArchive
    \/ UpdateDailyHeat
    \/ RefreshPostsIfNeeded
    \/ CollectHourlyPosts
    \/ ExportHourlyPosts
    \/ ProcessHourReturns
    \/ ApiTopicPostsRead
    \/ ApiLoadArchive
    \/ ApiEnsurePostsExist
    \/ ApiSaveArchive
    \/ ApiDailyHeat
    \/ Broadcast

(* The scheduler and the consumers side by side over the same files. *)
SpecServe == InitServe /\ [][NextServe]_vars

(* ------------------------------------------------------------------ *)
(* Properties of the archive file under the scheduler and the consumers  *)
(* ------------------------------------------------------------------ *)
HoursOf(rm, title) == IF title \in DOMAIN rm THEN Range(rm[title].appeared_hours) ELSE {}

(* The archive a step that opens a write is about to put into the file. *)
Incoming == IF api' # api THEN api'.data ELSE wr'.data

(* C11: the appeared_hours stored in a day's archive file only grow: every *)
(* step that starts to rewrite a complete archive file (the scheduler's     *)
(* merge, its refresh write-back, or the write-back of another component    *)
(* that loaded the archive) writes, for every title, at least the hours the *)
(* file held.                                                               *)
C11_AppearedHoursOnlyGrow ==
    [][\A d \in DOMAIN archive :
          (archive[d].state = "ok" /\ archive'[d].state = "partial")
             => \A t \in DOMAIN archive[d].data :
                   HoursOf(archive[d].data, t) \subseteq HoursOf(Incoming, t)]_vars

(* C12: no step of the HTTP query layer or of the broadcaster writes the *)
(* day's archive file or the heat summary file.                          *)
C12_ConsumersNeverWrite ==
    [][api' # api => (archive' = archive /\ summary' = summary)]_vars

(* ------------------------------------------------------------------ *)
(* Properties of the hourly snapshot files and of the pending slots      *)
(* ------------------------------------------------------------------ *)

(* C13: the hourly snapshot file of a slot is write-once: once it is there *)
(* complete, no later step of the scheduler, the forced attempt at the      *)
(* current hour on a startup included, rewrites it or changes its content.  *)
C13_SnapshotWriteOnce ==
    [][\A s \in DOMAIN hourly : hourly[s].state = "ok" => hourly'[s] = hourly[s]]_vars

Ascending(slots) == \A i, j \in 1..Len(slots) : i < j => slots[i] < slots[j]

(* C14: collect_pending_hours returns the pending slots oldest first, also *)
(* across the two days of the lookback window, and process_pending_hours   *)
(* processes them in that order: yesterday's missing hours before today's. *)
C14_PendingOldestFirst ==
    /\ pc = "cycle" => Ascending(collect_pending_hours(hourly, now))
    /\ (caller = "pending" /\ pc = "fetch") => Ascending(<<cur>> \o pending)

(* collect_pending_hours on its own, over snapshot directories with gaps: *)
(* hours missing before the window, yesterday, today, and none.           *)
GapSlots == {SlotOf(0, 5), SlotOf(1, 0), SlotOf(1, 23), SlotOf(2, 0), SlotOf(2, 1)}
PendingNows == {SlotStart(SlotOf(1, 10)) + 30, SlotStart(SlotOf(2, 0)) + 5, SlotStart(SlotOf(2, 1)) + 30,
                SlotStart(SlotOf(2, 2))}

InitPending ==
    /\ CrawlIdle /\ ArchIdle /\ AuxIdle
    /\ now \in PendingNows
    /\ \E gaps \in SUBSET GapSlots :
         hourly = [sl \in (0..NowSlot(now)) \ gaps |-> FileOk([entries |-> <<EntryA>>, local |-> FALSE, asof |-> sl])]
    /\ ticks = 0 /\ pc = "cycle" /\ caller = "none" /\ pending = << >>
    /\ processed_any = FALSE /\ cur = 0 /\ topics = NoTopics /\ daily_data = << >>
    /\ wr = NoWrite /\ archive = << >> /\ summary = FileOk(<< >>)
    /\ postCache = << >> /\ exitCause = "none" /\ stopping = FALSE /\ restarts = 0 /\ faults = 0
    /\ trace = << >> /\ f_last = NoFetch /\ api = NoRequest

(* pending = collect_pending_hours(now) *)
CollectPendingHours ==
    /\ pc = "cycle"
    /\ pending' = collect_pending_hours(hourly, now)
    /\ pc' = "collected"
    /\ UNCHANGED <<now, ticks, caller, processed_any, cur, topics, daily_data, wr, hourly, archive,
                   summary, postCache, exitCause, stopping, restarts, faults, trace, f_last>>
    /\ Frame

SpecPending == InitPending /\ [][CollectPendingHours]_vars

(* The lookback window at time t: yesterday's 24 hours and today's hours up to the current one. *)
Window(t) == SlotOf(NowDate(t) - 1, 0)..NowSlot(t)

(* C15: collect_pending_hours(now) returns exactly the slots of the lookback *)
(* window (today's hours 0..now.hour, yesterday's hours 0..23) that have no   *)
(* snapshot file, each once: no slot with a snapshot file, no future hour, no *)
(* slot older than the window.                                                *)
C15_PendingExact ==
    pc = "collected" =>
        /\ Range(pending) = {s \in Window(now) : s \notin DOMAIN hourly}
        /\ NoDup(pending)
        /\ \A i \in 1..Len(pending) :
              /\ pending[i] \notin DOMAIN hourly
              /\ pending[i] <= NowSlot(now)
              /\ SlotDate(pending[i]) >= NowDate(now) - 1

C15_Witness ==
    /\ pc = "collected"
    /\ now = SlotStart(SlotOf(2, 1)) + 30
    /\ SlotOf(0, 5) \notin DOMAIN hourly
    /\ SlotOf(2, 0) \in DOMAIN hourly
    /\ Range(pending) = {SlotOf(1, 23), SlotOf(2, 1)}

(* ------------------------------------------------------------------ *)
(* run_loop left to run: no error of the environment, no stop signal     *)
(* ------------------------------------------------------------------ *)
(* The run starts at 10:30 of day 1, every earlier slot fetched. *)
RetryStart == [now |-> SlotStart(SlotOf(1, 10)) + 30, skip |-> {}]

InitRetry ==
    /\ CrawlIdle /\ ArchIdle /\ AuxIdle
    /\ now = RetryStart.now
    /\ hourly = EarlierHourly(NowSlot(RetryStart.now), RetryStart.skip)
    /\ archive = EarlierArchives(NowSlot(RetryStart.now), RetryStart.skip)
    /\ summary = FileOk(EarlierSummary(archive))
    /\ postCache = << >>
    /\ ticks = 0 /\ pc = "boot" /\ caller = "none" /\ pending = << >>
    /\ processed_any = FALSE /\ cur = 0 /\ topics = NoTopics /\ daily_data = << >>
    /\ wr = NoWrite /\ exitCause = "none" /\ stopping = FALSE /\ restarts = 0 /\ faults = MaxFaults
    /\ trace = << >> /\ f_last = NoFetch /\ api = NoRequest

NextRetry ==
    \/ ProcessLatestHour
    \/ ProcessPendingHours
    \/ FetchTopics
    \/ UpdateHourlyArchive
    \/ WriteDone
    \/ MergeTopics
    \/ SaveDailyArchive
    \/ UpdateDailyHeat
    \/ RefreshPostsIfNeeded
    \/ CollectHourlyPosts
    \/ ExportHourlyPosts
    \/ ProcessHourReturns
    \/ Sleep
    \/ Tick

(* The event loop and its worker thread keep running: a step that can be *)
(* taken is taken.                                                       *)
SpecRetry == InitRetry /\ [][NextRetry]_vars /\ WF_vars(NextRetry)

(* process_hour is about to return False: the remote source gave nothing *)
(* and the escalation gate was not satisfied.                            *)
GateClosedMiss ==
    pc = "ret_false" /\ RemoteGaveNothing /\ ~ClaimGate(f_last.slot, f_last.at)

(* No record of the day's archive holds the hour of slot s. *)
HourNotMerged(s) ==
    \A t \in DOMAIN Loaded(SlotDate(s)) : HourStr(SlotHour(s)) \notin HoursOf(Loaded(SlotDate(s)), t)

(* The slot whose hour is under way when the run starts. *)
RetrySlot == NowSlot(RetryStart.now)

(* C16: when the remote source fails or is empty for a slot and the gate is *)
(* not satisfied, the slot is left pending: the local source is not asked,   *)
(* no snapshot file is written, no record is merged, the slot is still in    *)
(* the list collect_pending_hours returns; the slot of hour 10 is attempted  *)
(* again in the next cycle (as long as the clock of the model advances), and *)
(* an attempt for which a source yields data processes it.                   *)
C16_GateClosedLeftPending ==
    /\ [](GateClosedMiss =>
            /\ ~LocalInvoked
            /\ cur \notin DOMAIN hourly
            /\ HourNotMerged(cur)
            /\ cur \in Range(collect_pending_hours(hourly, now)))
    /\ (GateClosedMiss /\ cur = RetrySlot /\ ticks < MaxTicks)
          ~> (pc = "fetch" /\ cur = RetrySlot /\ caller = "pending")
    /\ (pc = "snapshot" /\ cur = RetrySlot)
          ~> (pc = "ret_true" /\ cur = RetrySlot /\ SlotMerged(RetrySlot))

(* Hour 10 missed twice at 10:30 with the gate closed, attempted again at *)
(* 10:40 and processed.                                                   *)
C16_Witness ==
    /\ pc = "ret_true" /\ caller = "pending" /\ cur = SlotOf(1, 10)
    /\ now = SlotStart(SlotOf(1, 10)) + 40 /\ ticks = 1
    /\ SlotMerged(cur)

(* C17: after a stop signal is received the slot being processed is left *)
(* to finish and the processing of no further slot is started.           *)
C17_NoNewSlotAfterStop ==
    [][(stopping /\ pc' = "fetch") => (pc = "fetch" /\ cur' = cur)]_vars

(* ------------------------------------------------------------------ *)
(* Properties of update_topic                                            *)
(* ------------------------------------------------------------------ *)
FirstNonEmpty(answers) ==
    IF answers.hashtag # << >> THEN answers.hashtag
    ELSE IF answers.keyword # << >> THEN answers.keyword
    ELSE answers.detail

AllEmpty(answers) == answers.hashtag = << >> /\ answers.keyword = << >> /\ answers.detail = << >>

(* C19: after update_topic(title, record, date) the record has            *)
(* last_post_refresh = date, latest_posts = the chosen result, known_ids = *)
(* exactly the identifiers of the posts of that result, needs_refresh =    *)
(* (the result has no posts); after a merge of a new title and a refresh   *)
(* whose keyword strategy returns 2 posts, needs_refresh is false and      *)
(* known_ids has 2 entries.                                                *)
C19_RefreshPostconditions ==
    a_last.kind = "refresh" =>
        /\ LastRecord.last_post_refresh = Some(a_last.date)
        /\ LastRecord.latest_posts = a_last.post_file[1]
        /\ LastRecord.latest_posts.items = FirstNonEmpty(a_last.answers)
        /\ Len(LastRecord.known_ids) = Len(LastRecord.latest_posts.items)
        /\ \A i \in 1..Len(LastRecord.known_ids) :
              LastRecord.known_ids[i] = LastRecord.latest_posts.items[i].id
        /\ LastRecord.needs_refresh = (LastRecord.latest_posts.items = << >>)
        /\ (a_last.answers.hashtag = << >> /\ Len(a_last.answers.keyword) = 2)
              => (~LastRecord.needs_refresh /\ Len(LastRecord.known_ids) = 2)

C19_Witness ==
    /\ a_last.kind = "refresh"
    /\ a_last.pre[1].last_post_refresh = None /\ a_last.pre[1].known_ids = << >>
    /\ a_last.invoked = <<"hashtag", "keyword">>
    /\ Len(LastRecord.latest_posts.items) = 2
    /\ ~LastRecord.needs_refresh /\ Len(LastRecord.known_ids) = 2

(* C20: when every strategy of update_topic returns no post, an explicit  *)
(* empty result is persisted all the same: the post file is written with   *)
(* an empty item list and latest_posts is present with an empty item list, *)
(* while a record never checked has latest_posts absent and                *)
(* last_post_refresh unset.                                                *)
C20_EmptyResultPersisted ==
    /\ (a_last.kind = "refresh" /\ AllEmpty(a_last.answers)) =>
          /\ a_last.post_file # None
          /\ a_last.post_file[1].present /\ a_last.post_file[1].items = << >>
          /\ LastRecord.latest_posts.present /\ LastRecord.latest_posts.items = << >>
          /\ LastRecord.last_post_refresh = Some(a_last.date)
          /\ LastRecord.needs_refresh
    /\ \A t \in DOMAIN record_map :
          record_map[t].last_post_refresh = None <=> ~record_map[t].latest_posts.present

C20_Witness ==
    /\ a_last.kind = "refresh" /\ AllEmpty(a_last.answers)
    /\ a_last.invoked = <<"hashtag", "keyword", "detail">>
    /\ LastRecord.latest_posts.present /\ LastRecord.latest_posts.items = << >>
    /\ \E t \in DOMAIN record_map : ~record_map[t].latest_posts.present

(* ------------------------------------------------------------------ *)
(* Failures inside a refresh strategy                                    *)
(* ------------------------------------------------------------------ *)
(* fetch_page when session.get raises requests.RequestException on every *)
(* attempt: the except clause keeps the error, (None, error) is returned. *)
TransportError == [ok |-> FALSE, error |-> Some("exception"), cards |-> << >>, more |-> FALSE]

(* A post whose attitudes_count the remote sends as a text, not a number. *)
TextCountPost(id) == [type9 |-> TRUE, id |-> id, hasTerm |-> TRUE, likes_text |-> "100w+",
                      comments |-> 0, reposts |-> 0, created |-> Some(1)]

TextCountPage == [ok |-> TRUE, error |-> None, cards |-> <<TextCountPost("A")>>, more |-> FALSE]

(* calculate_score multiplies the counts by floats: a text count is a TypeError. *)
ScoreRaises(mblog) == "likes" \notin DOMAIN mblog

(* The body of the loop over a page's cards reaches calculate_score and it raises: *)
(* no try encloses the call in crawl_topic.                                         *)
CardRaises(st, card, p) ==
    /\ card.type9
    /\ card.id # ""
    /\ card.id \notin p.skip_ids
    /\ card.id \notin st.seen_ids
    /\ card.hasTerm
    /\ ~(p.since # None /\ card.created # None /\ card.created[1] < p.since[1])
    /\ ScoreRaises(card)

RECURSIVE CardsRaise(_, _, _)
CardsRaise(st, cards, p) ==
    IF cards = << >> THEN FALSE
    ELSE \/ CardRaises(st, Head(cards), p)
         \/ CardsRaise(CrawlCard(st, Head(cards), p), Tail(cards), p)

RECURSIVE PagesRaise(_, _, _, _)
PagesRaise(st, page, source, p) ==
    IF page > p.max_pages \/ page > Len(source) THEN FALSE
    ELSE LET outcome == source[page]
             st1 == CrawlPageHead(st, page, outcome.ok, outcome.error, Len(outcome.cards))
         IN  IF ~outcome.ok \/ outcome.cards = << >> THEN FALSE
             ELSE \/ CardsRaise(st1, outcome.cards, p)
                  \/ outcome.more /\ PagesRaise(CrawlCards(st1, outcome.cards, p), page + 1, source, p)

(* crawl_topic run against a source ends with an exception. *)
CrawlRaises(source, p) == PagesRaise(CrawlStart(p.skip_ids), 1, source, p)

(* What the two searches and the topic page may do: fail in transport, answer with *)
(* a text count, answer with a post; the topic-detail crawler may raise.           *)
FaultySources == {<<FailedPage>>, <<TransportError>>, <<TextCountPage>>, <<PageOf(<<"A">>)>>}

StrategyEnvs == [hashtag : FaultySources, keyword : FaultySources, detail : DetailPosts,
                 detail_fails : BOOLEAN]

(* The strategies update_topic has called when crawl_topic raises, << >> if none does: *)
(* update_topic has no try around crawl_topic, the exception leaves update_topic.      *)
RaisedIn(title, record, env) ==
    LET p == RefreshParams(record) IN
    IF CrawlRaises(env.hashtag, p) THEN <<"hashtag">>
    ELSE IF /\ crawl_topic(env.hashtag, p).items = << >>
            /\ Strip(title) # << >>
            /\ CrawlRaises(env.keyword, p)
         THEN <<"hashtag", "keyword">>
    ELSE << >>

(* History: the posts each strategy handed back, << >> for one that was not called. *)
InvokedAnswers(record, e, invoked) ==
    LET called(m) == \E i \in 1..Len(invoked) : invoked[i] = m IN
    [ hashtag |-> crawl_topic(e.hashtag, RefreshParams(record)).items,
      keyword |-> IF called("keyword") THEN crawl_topic(e.keyword, RefreshParams(record)).items
                  ELSE << >>,
      detail  |-> IF called("detail") THEN convert_detail_posts(e.detail, TOP_N) ELSE << >> ]

StrategyRefresh(D) ==
    /\ a_ops < MaxOps
    /\ \E title \in DOMAIN record_map, d \in D, env \in StrategyEnvs :
         LET record == record_map[title]
             raised == RaisedIn(title, record, env)
             \* _fetch_posts_via_topic_detail: an exception of get_top_20_hot_posts is an empty list
             e == [hashtag |-> env.hashtag, keyword |-> env.keyword,
                   detail |-> IF env.detail_fails THEN << >> ELSE env.detail]
         IN  IF raised # << >>
             THEN /\ record_map' = record_map
                  /\ a_last' = [NoOp EXCEPT !.kind = "raised", !.title = title, !.date = d,
                                  !.pre = Some(record), !.invoked = raised]
             ELSE LET u == update_topic(title, record, d, e) IN
                  /\ record_map' = [record_map EXCEPT ![title] = u.record]
                  /\ a_last' = [NoOp EXCEPT !.kind = "refresh", !.title = title, !.date = d,
                                  !.pre = Some(record), !.invoked = u.invoked,
                                  !.answers = InvokedAnswers(record, e, u.invoked),
                                  !.post_file = Some(u.result)]
    /\ a_ops' = a_ops + 1
    /\ UNCHANGED <<a_date, crawlVars, schedVars, auxVars>>

NextStrategy == ArchUpsert(Dates) \/ StrategyRefresh(Dates)

SpecStrategy == InitArchive /\ [][NextStrategy]_vars

(* C18: a failure inside one refresh strategy of update_topic (a transport *)
(* error or a parse error in the hashtag crawl, the keyword crawl or the   *)
(* topic-detail fallback) is caught and counts as an empty result of that  *)
(* strategy: update_topic does not raise, and after a hashtag strategy     *)
(* that gave nothing the keyword strategy is still tried.                  *)
C18_StrategyFailureContained ==
    /\ a_last.kind # "raised"
    /\ (a_last.kind = "refresh" /\ a_last.answers.hashtag = << >>)
          => \E i \in 1..Len(a_last.invoked) : a_last.invoked[i] = "keyword"

(* ------------------------------------------------------------------ *)
(* Properties of the archive records, continued                          *)
(* ------------------------------------------------------------------ *)
IdsOf(items) == {items[i].id : i \in 1..Len(items)}

(* C21: for any sequence of update_topic calls on one record within a day, *)
(* a post identifier returned by an earlier refresh is never returned      *)
(* again by a later refresh of that record (here: by the next one).        *)
C21_NoPostReturnedTwice ==
    (a_last.kind = "refresh" /\ a_last.pre[1].last_post_refresh = Some(a_last.date))
        => IdsOf(LastRecord.latest_posts.items) \cap IdsOf(a_last.pre[1].latest_posts.items) = {}

(* C22: upsert_topic of an entry whose title is not yet in the archive    *)
(* creates a record with appeared_hours = [hour], first_seen = last_seen = *)
(* the timestamp of (date, hour), needs_refresh true, empty known_ids and  *)
(* no last_post_refresh; merging one entry for hour 09 into an empty       *)
(* archive gives appeared_hours = ["09"] and first_seen = last_seen =      *)
(* <date>T09:00:00+08:00.                                                  *)
C22_NewRecordFields ==
    (a_last.kind = "upsert" /\ a_last.pre = None /\ a_last.title \in DOMAIN record_map) =>
        /\ LastRecord.appeared_hours = <<HourStr(a_last.hour)>>
        /\ LastRecord.first_seen = iso_time(a_last.date, a_last.hour)
        /\ LastRecord.last_seen = LastRecord.first_seen
        /\ LastRecord.needs_refresh
        /\ LastRecord.known_ids = << >>
        /\ LastRecord.last_post_refresh = None
        /\ a_last.ret = Some(LastRecord)
        /\ a_last.hour = 9 =>
              /\ LastRecord.appeared_hours = << <<0, 9>> >>
              /\ LastRecord.first_seen = [date |-> a_last.date, hh |-> <<0, 9>>, rest |-> ":00:00+08:00"]

C22_Witness ==
    /\ a_last.kind = "upsert" /\ a_last.pre = None /\ a_last.hour = 9
    /\ DOMAIN record_map = {a_last.title}
    /\ LastRecord.appeared_hours = << <<0, 9>> >>
    /\ LastRecord.needs_refresh

BlankUpsert == a_last.kind = "upsert" /\ Strip(a_last.raw) = << >>

(* C23: upsert_topic of an entry whose title is missing, empty or only    *)
(* whitespace produces no record, returns nothing and leaves the archive   *)
(* mapping unchanged.                                                      *)
C23_BlankTitleDropped ==
    /\ [](BlankUpsert => a_last.ret = None)
    /\ [](\A t \in DOMAIN record_map : t # << >> /\ Strip(record_map[t].title) # << >>)
    /\ [][(a_ops' # a_ops /\ BlankUpsert') => record_map' = record_map]_vars

C23_Witness ==
    /\ BlankUpsert /\ a_last.raw = <<" ">>
    /\ a_last.ret = None
    /\ record_map # << >>

(* C24: a record's slug is a pure function of its title and never changes *)
(* once assigned: after any sequence of upsert_topic and update_topic       *)
(* operations on a record its slug is the one it was created with.          *)
C24_SlugStable ==
    /\ [](\A t \in DOMAIN record_map : record_map[t].slug = slugify_title(t))
    /\ [][\A t \in DOMAIN record_map :
             t \in DOMAIN record_map' /\ record_map'[t].slug = record_map[t].slug]_vars

C24_Witness ==
    /\ a_last.kind = "refresh"
    /\ Len(LastRecord.appeared_hours) = 2
    /\ LastRecord.title # a_last.title
    /\ LastRecord.slug = slugify_title(a_last.title)

(* ------------------------------------------------------------------ *)
(* The heat summary over many days                                       *)
(* ------------------------------------------------------------------ *)
MaxHeatDays == 130
MaxRawDays == 1

(* The heat values a record may carry besides the integers. *)
RawHeats ==
    { [kind |-> "null"],
      [kind |-> "bool", b |-> TRUE],
      [kind |-> "float", tenths |-> 15],
      [kind |-> "float", tenths |-> 0 - 5],
      [kind |-> "str", chars |-> << >>],
      [kind |-> "str", chars |-> <<" ", "7", " ">>],
      [kind |-> "str", chars |-> <<"-", "7">>],
      [kind |-> "str", chars |-> <<"x">>] }

RawRecords ==
    [title : {<<"a">>}, hot_raw : RawHeats, ads : {FALSE}]
       \cup [title : {<<"a">>}, hot : {0 - 3, 0, 5}, ads : BOOLEAN]

(* The archives of the first days: the record a, with or without a plain record b. *)
RawArchives ==
    {[t \in {<<"a">>} |-> r] : r \in RawRecords}
       \cup {[t \in {<<"a">>, <<"b">>} |-> IF t = <<"a">> THEN r ELSE [title |-> <<"b">>, hot |-> 2]] :
               r \in [title : {<<"a">>}, hot : {5}, ads : BOOLEAN]}

(* The archive of a later day: one record, its heat set by the day. *)
DayArchive(d) == [t \in {<<"a">>} |-> [title |-> <<"a">>, hot |-> 1 + (d % 2)]]

(* update_daily_heat(date, archive) for today, again for today or for yesterday, *)
(* or for the next day: the summary file is rewritten by _store_summary.       *)
HeatMerge ==
    /\ summary.state = "ok"
    /\ \E d \in {a_date - 1, a_date, a_date + 1} :
         /\ d >= 1 /\ d <= MaxHeatDays
         /\ \E rm \in IF d <= MaxRawDays THEN RawArchives ELSE {DayArchive(d)} :
              /\ summary' = FileOk(update_daily_heat(summary.data, d, rm))
              /\ record_map' = rm
              /\ a_last' = [NoOp EXCEPT !.kind = "heat", !.date = d, !.pre = Some(summary.data),
                              !.ret = Some(summarize_archive(d, rm))]
         /\ a_date' = IF d > a_date THEN d ELSE a_date
    /\ UNCHANGED <<a_ops, crawlVars, auxVars, now, ticks, pc, caller, pending, processed_any, cur,
                   topics, daily_data, wr, hourly, archive, postCache, stopping, exitCause,
                   restarts, faults, trace, f_last, api>>

InitHeat == CrawlIdle /\ SchedIdle /\ AuxIdle /\ ArchIdle

SpecHeat == InitHeat /\ [][HeatMerge]_vars

DatesIn(entries) == {entries[i].date : i \in 1..Len(entries)}

(* C25: update_daily_heat called twice for the same date with the same    *)
(* archive gives a summary with exactly one entry for that date, equal to  *)
(* the summary after the first call; in every reachable state the summary  *)
(* holds at most one entry per date.                                       *)
C25_HeatIdempotent ==
    /\ \A i, j \in 1..Len(summary.data) : summary.data[i].date = summary.data[j].date => i = j
    /\ a_last.kind = "heat" =>
          /\ update_daily_heat(summary.data, a_last.date, record_map) = summary.data
          /\ Cardinality({i \in 1..Len(summary.data) : summary.data[i].date = a_last.date}) = 1

C25_Witness ==
    /\ a_last.kind = "heat"
    /\ a_last.date \in DatesIn(a_last.pre[1])
    /\ a_last.pre[1] = summary.data
    /\ Len(summary.data) >= 2
    /\ Cardinality({i \in 1..Len(summary.data) : summary.data[i].date = a_last.date}) = 1

(* C26: after every update_daily_heat the stored summary is sorted by date *)
(* ascending and has at most MAX_DAYS (120) entries, the most recent dates  *)
(* among the previous entries and the merged one; merging 130 distinct days *)
(* one by one leaves exactly the 120 most recent dates and drops the oldest *)
(* 10.                                                                      *)
C26_SortedAndCapped ==
    a_last.kind = "heat" =>
        LET all == DatesIn(a_last.pre[1]) \cup {a_last.date}
            kept == DatesIn(summary.data)
        IN  /\ \A i \in 1..Len(summary.data) - 1 : summary.data[i].date < summary.data[i + 1].date
            /\ Len(summary.data) <= MAX_DAYS
            /\ kept \subseteq all
            /\ Cardinality(kept) = IF Cardinality(all) > MAX_DAYS THEN MAX_DAYS ELSE Cardinality(all)
            /\ \A x \in all \ kept : \A y \in kept : x < y
            /\ a_date = 130 => kept = 11..130

C26_Witness ==
    /\ a_last.kind = "heat" /\ a_last.date = 130 /\ a_date = 130
    /\ Len(a_last.pre[1]) = MAX_DAYS /\ a_last.pre[1][1].date = 10
    /\ Len(summary.data) = 120
    /\ summary.data[1].date = 11 /\ summary.data[120].date = 130

(* The heat of the record is a value (number, or text of a number) that is not negative. *)
NonNegativeHeat(record) ==
    IF "hot_raw" \notin DOMAIN record THEN record.hot >= 0
    ELSE CASE record.hot_raw.kind = "float" -> record.hot_raw.tenths >= 0
           [] record.hot_raw.kind = "bool"  -> TRUE
           [] record.hot_raw.kind = "str"   -> /\ ParseInt(record.hot_raw.chars) # None
                                               /\ ParseInt(record.hot_raw.chars)[1] >= 0
           [] OTHER                         -> FALSE

(* C27: summarize_archive returns total_heat = the sum of heat over exactly *)
(* the records that are not advertisements and have a valid non-negative     *)
(* heat, and topic_count = the number of those records; advertisements and   *)
(* records with missing, invalid or negative heat count in neither.          *)
C27_OnlyValidHeatCounted ==
    a_last.kind = "heat" =>
        LET valid == {t \in DOMAIN record_map :
                        ~IsAd(record_map[t]) /\ NonNegativeHeat(record_map[t])}
        IN  /\ a_last.ret[1].topic_count = Cardinality(valid)
            /\ a_last.ret[1].total_heat = SumHot(record_map, valid)

(* ------------------------------------------------------------------ *)
(* fetch_page inside the page loop of crawl_topic, attempt by attempt    *)
(* ------------------------------------------------------------------ *)
MAX_RETRIES == 3

(* What one session.get may answer: 200 with ok = 1, 200 with another ok, *)
(* 403, 418, another status, a requests.RequestException.                 *)
FetchAnswers == {"ok1", "ok0", "http_403", "http_418", "http_500", "exception"}

(* Mutant: 403 and 418 are retried like any other status. *)
AttemptOutcomeRetryAll(answer, attempt) ==
    IF answer = "ok1" THEN "data"
    ELSE IF answer = "ok0" THEN "fail"
    ELSE IF attempt < MAX_RETRIES THEN "retry" ELSE "fail"

(* One pass of the while loop of fetch_page, attempt counted from 1: the page *)
(* is returned, the fetch is given up, or the loop sleeps and goes round.     *)
AttemptOutcome(answer, attempt) ==
    IF answer = "ok1" THEN "data"
    ELSE IF answer \in {"ok0", "http_403", "http_418"} THEN "fail"
    ELSE IF attempt < MAX_RETRIES THEN "retry" ELSE "fail"

(* The payloads of a page that was fetched: no card, one post, with or without a next page. *)
FetchedPages ==
    { [ok |-> TRUE, error |-> None, cards |-> << >>, more |-> TRUE],
      [ok |-> TRUE, error |-> None, cards |-> <<GoodPost("A")>>, more |-> FALSE],
      [ok |-> TRUE, error |-> None, cards |-> <<GoodPost("B")>>, more |-> TRUE] }

FetchAttempt ==
    /\ cr_pc = "page"
    /\ \E answer \in FetchAnswers :
         LET attempt == cr_fetch.attempt + 1
             outcome == AttemptOutcome(answer, attempt)
             log == Append(cr_fetch.log, [page |-> cr_page, attempt |-> attempt, answer |-> answer])
         IN  CASE outcome = "retry" ->
                    /\ cr_fetch' = [attempt |-> attempt, log |-> log]
                    /\ UNCHANGED <<cr_pc, cr_page, cr_st>>
               [] outcome = "fail" ->
                    /\ cr_fetch' = [attempt |-> 0, log |-> log]
                    /\ cr_st' = CrawlPageHead(cr_st, cr_page, FALSE, Some(answer), 0)
                    /\ cr_pc' = "sort" /\ cr_page' = cr_page
               [] outcome = "data" ->
                    /\ cr_fetch' = [attempt |-> 0, log |-> log]
                    /\ \E page \in FetchedPages :
                         LET r == CrawlPage(cr_st, cr_page, page, cr_p) IN
                         /\ cr_st' = r.st
                         /\ CrawlAfterPage(r.stop)
    /\ UNCHANGED <<cr_p, cr_left, cr_more, cr_result, cr_good, archVars, schedVars, auxVars>>

InitFetch ==
    /\ ArchIdle /\ SchedIdle /\ AuxIdle
    /\ cr_p \in [skip_ids : {{}}, top_n : {TOP_N}, max_pages : PageLimits,
                 min_score : {MIN_SCORE}, since : {None}]
    /\ cr_pc = "page" /\ cr_page = 1
    /\ cr_st = CrawlStart(cr_p.skip_ids)
    /\ cr_left = 0 /\ cr_more = FALSE /\ cr_result = NoPosts /\ cr_good = {}
    /\ cr_fetch = NoAttempts

NextFetch == FetchAttempt \/ CrawlFinish

SpecFetch == InitFetch /\ [][NextFetch]_vars

AttemptsFor(page) == {i \in 1..Len(cr_fetch.log) : cr_fetch.log[i].page = page}

Transient(answer) == answer \in {"http_500", "exception"}

C29_SortedTruncated ==
    cr_pc = "done" =>
        LET items == cr_result.items
            accepted == cr_st.collected
        IN  /\ Len(items) <= cr_p.top_n
            /\ Len(items) = IF Len(accepted) > cr_p.top_n THEN cr_p.top_n ELSE Len(accepted)
            /\ cr_result.total = Len(accepted)
            /\ Range(items) \subseteq Range(accepted)
            /\ \A i \in 1..Len(items) - 1 : ~KeyGreater(items[i + 1], items[i])
            /\ \A c \in Range(accepted) \ Range(items) :
                  \A i \in 1..Len(items) : ~KeyGreater(c, items[i])

C29_Witness ==
    /\ cr_pc = "done"
    /\ cr_p.top_n = 1
    /\ Len(cr_st.collected) = 2
    /\ KeyGreater(cr_st.collected[2], cr_st.collected[1])
    /\ cr_result.items = <<cr_st.collected[2]>>
    /\ cr_result.total = 2

(* C30: crawl_topic always returns its diagnostic counters (pages          *)
(* requested and succeeded, candidates seen, counts per rejection reason), *)
(* for a result with items as for an empty one, and an empty result        *)
(* carries an empty_reason that tells apart: no page fetched, pages        *)
(* fetched without a candidate post, candidates all rejected.              *)
C30_DiagnosticsAlways ==
    cr_pc = "done" =>
        /\ cr_result.stats # None
        /\ cr_result.items = << >> =>
              /\ cr_result.empty_reason # << >>
              /\ cr_st.pages_succeeded = 0
                    <=> cr_result.empty_reason[1] \in {"fetch_failed", "no_response"}
              /\ (cr_st.pages_succeeded > 0 /\ cr_st.type9_seen = 0)
                    <=> cr_result.empty_reason[1] = "no_topic_cards"

(* ------------------------------------------------------------------ *)
(* PostRefresher: refresh_posts_for_date, one batch over a day's archive *)
(* ------------------------------------------------------------------ *)
MaxBatchLimit == 1

(* MAX_TOPICS_PER_RUN: Optional[int] = None *)
MAX_TOPICS_PER_RUN == None

(* The values max_topics takes: None, or a count. *)
BatchLimits == {None} \cup {Some(n) : n \in 0..MaxBatchLimit}

(* The orders archive.items() can walk the titles in. *)
Orders(S) == {s \in [1..Cardinality(S) -> S] : \A t \in S : \E i \in 1..Cardinality(S) : s[i] = t}

(* What update_topic meets for one topic: no post, a post, an exception. *)
BatchOutcomes(S) == [S -> {"empty", "posts", "raise"}]

(* Mutant: the exception leaves the record stamped as refreshed for the date. *)
RefreshOneStamped(acc, title, date_str, max_topics, outcome) ==
    LET record == acc.archive[title] IN
    IF max_topics # None /\ Len(acc.refreshed) >= max_topics[1]
    THEN [acc EXCEPT !.skipped = Append(@, title)]
    ELSE IF ~record.needs_refresh
    THEN [acc EXCEPT !.skipped = Append(@, title)]
    ELSE IF outcome = "raise"
    THEN [acc EXCEPT !.failed = Append(@, title),
                     !.archive[title] = [record EXCEPT !.last_post_refresh = Some(date_str)]]
    ELSE [acc EXCEPT !.refreshed = Append(@, title),
                     !.archive[title] = update_topic(title, record, date_str,
                                            IF outcome = "posts" THEN EnvPosts ELSE EnvEmpty).record]

(* One turn of the loop of refresh_posts_for_date (lines 123-135). An exception *)
(* leaves update_topic after its first two lines: the slug is in the record.     *)
RefreshOne(acc, title, date_str, max_topics, outcome) ==
    LET record == acc.archive[title] IN
    IF max_topics # None /\ Len(acc.refreshed) >= max_topics[1]
    THEN [acc EXCEPT !.skipped = Append(@, title)]
    ELSE IF ~record.needs_refresh
    THEN [acc EXCEPT !.skipped = Append(@, title)]
    ELSE IF outcome = "raise"
    THEN [acc EXCEPT !.failed = Append(@, title),
                     !.archive[title] = [record EXCEPT !.slug = IF @ # << >> THEN @ ELSE slugify_title(title)]]
    ELSE [acc EXCEPT !.refreshed = Append(@, title),
                     !.archive[title] = update_topic(title, record, date_str,
                                            IF outcome = "posts" THEN EnvPosts ELSE EnvEmpty).record]

RECURSIVE RefreshLoop(_, _, _, _, _)
RefreshLoop(acc, order, date_str, max_topics, outcomes) ==
    IF order = << >> THEN acc
    ELSE RefreshLoop(RefreshOne(acc, Head(order), date_str, max_topics, outcomes[Head(order)]),
                     Tail(order), date_str, max_topics, outcomes)

refresh_posts_for_date(rm, order, date_str, max_topics, outcomes) ==
    RefreshLoop([archive |-> rm, refreshed |-> << >>, skipped |-> << >>, failed |-> << >>],
                order, date_str, max_topics, outcomes)

(* refresh_posts_for_date with save_archive; history keeps the call and its return. *)
ArchBatch ==
    /\ a_ops < MaxOps
    /\ record_map # << >>
    /\ \E order \in Orders(DOMAIN record_map), max_topics \in BatchLimits,
          outcomes \in BatchOutcomes(DOMAIN record_map) :
         LET r == refresh_posts_for_date(record_map, order, a_date, max_topics, outcomes) IN
         /\ record_map' = r.archive
         /\ a_last' = [NoOp EXCEPT !.kind = "batch", !.date = a_date,
                         !.ret = Some([refreshed |-> r.refreshed, skipped |-> r.skipped,
                                       failed |-> r.failed, order |-> order, limit |-> max_topics,
                                       outcomes |-> outcomes, before |-> record_map])]
    /\ a_ops' = a_ops + 1
    /\ UNCHANGED <<a_date, crawlVars, schedVars, auxVars>>

NextBatch == ArchUpsert({a_date}) \/ ArchBatch

SpecBatch == InitDay /\ [][NextBatch]_vars

(* The titles a batch tried to fetch posts for. *)
Attempted(b) == b.refreshed \o b.failed

(* C31: after a batch, every title whose refresh raised is in failed, its record     *)
(* still needs a refresh and keeps last_post_refresh, known_ids and latest_posts;    *)
(* the topics after it were still processed and saved; every title of the archive    *)
(* is in exactly one of refreshed, skipped and failed.                               *)
C31_FailureIsolated ==
    a_last.kind = "batch" =>
        LET b == a_last.ret[1]
            all == b.refreshed \o b.skipped \o b.failed
        IN  /\ DOMAIN record_map = DOMAIN b.before
            /\ \A t \in DOMAIN b.before : Count(all, t) = 1
            /\ \A t \in Range(b.failed) :
                 /\ b.outcomes[t] = "raise"
                 /\ record_map[t].needs_refresh
                 /\ record_map[t].last_post_refresh = b.before[t].last_post_refresh
                 /\ record_map[t].known_ids = b.before[t].known_ids
                 /\ record_map[t].latest_posts = b.before[t].latest_posts
            /\ \A i, j \in 1..Len(b.order) :
                 (/\ i < j /\ b.order[i] \in Range(b.failed) /\ b.limit = None
                  /\ b.before[b.order[j]].needs_refresh /\ b.outcomes[b.order[j]] = "posts")
                 => /\ b.order[j] \in Range(b.refreshed)
                    /\ record_map[b.order[j]].last_post_refresh = Some(a_last.date)
                    /\ ~record_map[b.order[j]].needs_refresh

C31_Witness ==
    /\ a_last.kind = "batch"
    /\ LET b == a_last.ret[1] IN
         /\ Len(b.order) = 2
         /\ b.order[1] \in Range(b.failed)
         /\ b.order[2] \in Range(b.refreshed)
         /\ record_map[b.order[2]].known_ids # << >>

(* C32: a batch with limit N tries a post fetch for at most N topics, the ones whose *)
(* refresh failed included.                                                          *)
C32_AttemptsWithinLimit ==
    (a_last.kind = "batch" /\ a_last.ret[1].limit # None)
        => Len(Attempted(a_last.ret[1])) <= a_last.ret[1].limit[1]

(* C33: a remote fetch that ended in an error was tried more than once before the *)
(* failure was reported and the local source considered.                            *)
C33_FailureRetried == f_last.remote = "error" => f_last.requests > 1

(* The hour an entry of appeared_hours or the hh of a timestamp stands for. *)
HourOf(hh) == 10 * hh[1] + hh[2]

(* Order of two iso_time values of the fixed +08:00 offset. *)
SeenBefore(x, y) == x.date < y.date \/ (x.date = y.date /\ HourOf(x.hh) <= HourOf(y.hh))

LatestHour(hours) == CHOOSE h \in {HourOf(x) : x \in Range(hours)} : \A x \in Range(hours) : HourOf(x) <= h

(* C36: in every saved day archive every record has first_seen <= last_seen and *)
(* last_seen is the timestamp of the latest hour in appeared_hours.              *)
C36_SeenOrdered ==
    \A d \in DOMAIN archive :
        archive[d].state = "ok" =>
            \A t \in DOMAIN archive[d].data :
                LET r == archive[d].data[t] IN
                /\ SeenBefore(r.first_seen, r.last_seen)
                /\ r.last_seen = iso_time(d, LatestHour(r.appeared_hours))

(* A run that starts at 10:30 of day 1 with the 09:00 slot never fetched: the state *)
(* a previous run leaves that was down over that hour. run_loop merges the current  *)
(* hour first (process_latest_hour(True)), then the pending ones.                   *)
ColdStarts == StartStates \cup {[now |-> SlotStart(SlotOf(1, 10)) + 30, skip |-> {SlotOf(1, 9)}]}

InitCold ==
    /\ CrawlIdle /\ ArchIdle /\ AuxIdle
    /\ \E start \in ColdStarts :
         /\ now = start.now
         /\ hourly = EarlierHourly(NowSlot(start.now), start.skip)
         /\ archive = EarlierArchives(NowSlot(start.now), start.skip)
    /\ summary = FileOk(EarlierSummary(archive))
    /\ postCache = << >>
    /\ ticks = 0 /\ pc = "boot" /\ caller = "none" /\ pending = << >>
    /\ processed_any = FALSE /\ cur = 0 /\ topics = NoTopics /\ daily_data = << >>
    /\ wr = NoWrite /\ exitCause = "none" /\ stopping = FALSE /\ restarts = 0 /\ faults = 0
    /\ trace = << >> /\ f_last = NoFetch /\ api = NoRequest

SpecCold == InitCold /\ [][Next]_vars

(* C38: the hourly file of a slot, and the entries merged into the day's archive *)
(* under a slot, are the ranking a source produced for that slot.                 *)
C38_SlotRanking ==
    /\ \A sl \in DOMAIN hourly : hourly[sl].state = "ok" => hourly[sl].data.asof = sl
    /\ pc = "save" => topics.asof = cur

(* C39: every item of a refresh result carries ten times its score equal to *)
(* 6*likes + 3*comments + 1*reposts, whichever strategy produced it.          *)
C39_OneScoreFormula ==
    a_last.kind = "refresh" =>
        \A i \in 1..Len(a_last.post_file[1].items) :
            LET item == a_last.post_file[1].items[i]
            IN  item.score = 6 * item.likes + 3 * item.comments + 1 * item.reposts

(* ------------------------------------------------------------------ *)
(* AI card: fetch_ai_card, ensure_aicard_snapshot, update_daily_archive  *)
(* ------------------------------------------------------------------ *)
MaxCardRetries == 2
MaxCardCalls == 2

(* aicard_client.MAX_RETRIES, the default of fetch_ai_card's retries *)
AICARD_MAX_RETRIES == 3

(* What one POST meets: a 2xx answer with a JSON body, a 2xx answer whose body is *)
(* not JSON, a status >= 500, a status 4xx, an exception of requests.             *)
Responses == {"ok", "undecodable", "server_error", "client_error", "transport"}

RECURSIVE SendAttemptsShort(_, _, _)
(* Mutant: the loop gives up one attempt early when it may retry at all. *)
SendAttemptsShort(retries, responses, attempt) ==
    IF attempt > retries \/ (retries > 0 /\ attempt = retries)
    THEN [sent |-> attempt, outcome |-> "AICardError"]
    ELSE LET r == responses[attempt + 1] IN
         CASE r = "server_error" -> SendAttemptsShort(retries, responses, attempt + 1)
           [] r \in {"client_error", "transport"} ->
                IF attempt = retries THEN [sent |-> attempt + 1, outcome |-> "RequestException"]
                ELSE SendAttemptsShort(retries, responses, attempt + 1)
           [] r = "undecodable" -> [sent |-> attempt + 1, outcome |-> "AICardError"]
           [] OTHER -> [sent |-> attempt + 1, outcome |-> "result"]

RECURSIVE SendAttempts(_, _, _)
(* fetch_ai_card from the given attempt on (lines 151-187): the requests sent and    *)
(* how the call ends. A 5xx answer continues the loop, whose else clause raises      *)
(* AICardError; an exception of requests (raise_for_status on 4xx included) is       *)
(* raised again as it is on the last attempt; the body is decoded after the loop.    *)
SendAttempts(retries, responses, attempt) ==
    IF attempt > retries
    THEN [sent |-> attempt, outcome |-> "AICardError"]
    ELSE LET r == responses[attempt + 1] IN
         CASE r = "server_error" -> SendAttempts(retries, responses, attempt + 1)
           [] r \in {"client_error", "transport"} ->
                IF attempt = retries THEN [sent |-> attempt + 1, outcome |-> "RequestException"]
                ELSE SendAttempts(retries, responses, attempt + 1)
           [] r = "undecodable" -> [sent |-> attempt + 1, outcome |-> "AICardError"]
           [] OTHER -> [sent |-> attempt + 1, outcome |-> "result"]

fetch_ai_card(retries, responses) == SendAttempts(retries, responses, 0)

(* The answers of the server to the retries + 1 requests a call can send. *)
Uniform(x) == [i \in 1..(AICARD_MAX_RETRIES + 1) |-> x]
CardAnswers == {Uniform(x) : x \in Responses} \cup {[Uniform("ok") EXCEPT ![1] = "server_error"]}

CardTitles == {<<"a">>, <<"b">>}
CardSlugs == {None, <<"s">>}

(* The value ensure_aicard_snapshot returns for the files of a key. *)
CardPaths(title, key) ==
    [slug |-> key[3], html |-> <<key, "html">>, json |-> <<key, "json">>, title |-> title]

(* Mutant: the files on disk are never reused. *)
ensure_aicard_snapshot_refetch(c, title, date_str, hour, slug, overwrite, responses, disk) ==
    LET key == <<date_str, hour, IF slug # None THEN slug ELSE slugify_title(title)>>
        n == c.fetches + 1
    IN  [card |-> [c EXCEPT !.fetches = n,
                            !.html = [k \in DOMAIN c.html \cup {key} |-> IF k = key THEN n ELSE c.html[k]],
                            !.json = [k \in DOMAIN c.json \cup {key} |-> IF k = key THEN n ELSE c.json[k]]],
         ret |-> Some(CardPaths(title, key)), raised |-> FALSE, fetched |-> TRUE]

(* ensure_aicard_snapshot (lines 73-157). c holds the files: html and json map a key  *)
(* <<date, hour, slug>> to the fetch that wrote the file, index maps <<date, hour>>    *)
(* to the entries of index.json. disk = "json_fails": write_text of the json file      *)
(* raises after the html file was written.                                             *)
ensure_aicard_snapshot(c, title, date_str, hour, slug, overwrite, responses, disk) ==
    LET normalized_slug == IF slug # None THEN slug ELSE slugify_title(title)
        key == <<date_str, hour, normalized_slug>>
        dir == <<date_str, hour>>
    IN  IF ~overwrite /\ key \in DOMAIN c.html /\ key \in DOMAIN c.json
        THEN [card |-> c, ret |-> Some(CardPaths(title, key)), raised |-> FALSE, fetched |-> FALSE]
        ELSE LET f == fetch_ai_card(AICARD_MAX_RETRIES, responses)
                 n == c.fetches + 1
                 asked == [c EXCEPT !.fetches = n]
                 with_html == [asked EXCEPT
                                 !.html = [k \in DOMAIN c.html \cup {key} |-> IF k = key THEN n ELSE c.html[k]]]
                 old_index == IF dir \in DOMAIN c.index THEN c.index[dir] ELSE << >>
                 entry == [title |-> title, html |-> <<key, "html">>, json |-> <<key, "json">>, fetched_at |-> n]
                 new_index == [sl \in DOMAIN old_index \cup {normalized_slug} |->
                                  IF sl = normalized_slug THEN entry ELSE old_index[sl]]
             IN  IF f.outcome = "AICardError"
                 THEN [card |-> asked, ret |-> None, raised |-> FALSE, fetched |-> TRUE]
                 ELSE IF f.outcome = "RequestException"
                 THEN [card |-> asked, ret |-> None, raised |-> TRUE, fetched |-> TRUE]
                 ELSE IF disk = "json_fails"
                 THEN [card |-> with_html, ret |-> None, raised |-> TRUE, fetched |-> TRUE]
                 ELSE [card |-> [with_html EXCEPT
                                   !.json = [k \in DOMAIN c.json \cup {key} |-> IF k = key THEN n ELSE c.json[k]],
                                   !.index = [d \in DOMAIN c.index \cup {dir} |->
                                                 IF d = dir THEN new_index ELSE c.index[d]]],
                       ret |-> Some(CardPaths(title, key)), raised |-> FALSE, fetched |-> TRUE]

(* One call of fetch_ai_card with some retries and some answers of the server. *)
CardFetch ==
    /\ aicard.calls < MaxCardCalls
    /\ \E retries \in 0..MaxCardRetries :
         \E responses \in [1..(retries + 1) -> Responses] :
           LET f == fetch_ai_card(retries, responses) IN
           aicard' = [aicard EXCEPT !.calls = @ + 1,
                        !.last = [kind |-> "fetch", retries |-> retries, responses |-> responses,
                                  sent |-> f.sent, outcome |-> f.outcome]]
    /\ UNCHANGED <<ws, crawlVars, archVars, schedVars>>

(* One call of ensure_aicard_snapshot, as the query layer and update_daily_archive make it. *)
EnsureSnapshot ==
    /\ aicard.calls < MaxCardCalls
    /\ \E title \in CardTitles, hour \in Hours, slug \in CardSlugs, overwrite \in BOOLEAN,
          responses \in CardAnswers, disk \in {"ok", "json_fails"} :
         LET e == ensure_aicard_snapshot(aicard, title, a_date, hour, slug, overwrite, responses, disk)
             key == <<a_date, hour, IF slug # None THEN slug ELSE slugify_title(title)>>
         IN  aicard' = [e.card EXCEPT !.calls = @ + 1,
                          !.last = [kind |-> "ensure", title |-> title, key |-> key, overwrite |-> overwrite,
                                    ret |-> e.ret, raised |-> e.raised, fetched |-> e.fetched,
                                    before |-> [html |-> aicard.html, json |-> aicard.json,
                                                index |-> aicard.index, fetches |-> aicard.fetches]]]
    /\ UNCHANGED <<ws, crawlVars, archVars, schedVars>>

(* record["aicard"] as update_daily_archive fills it (lines 95-103) *)
WithCard(record, snapshot, hour) ==
    LET old == IF "aicard" \in DOMAIN record THEN record.aicard.hours ELSE << >>
        slot == [html |-> snapshot.html, json |-> snapshot.json]
        hours == [h \in DOMAIN old \cup {HourStr(hour)} |-> IF h = HourStr(hour) THEN slot ELSE old[h]]
    IN  [f \in DOMAIN record \cup {"aicard"} |->
            IF f = "aicard" THEN [html |-> snapshot.html, json |-> snapshot.json, hours |-> hours]
            ELSE record[f]]

RECURSIVE MergeCards(_, _, _, _, _, _)
(* The loop of update_daily_archive (lines 82-103) from entry i on; an exception *)
(* of ensure_aicard_snapshot leaves the loop and the function.                    *)
MergeCards(st, entries, i, date_str, hour, answers) ==
    IF i > Len(entries) \/ st.raised THEN st
    ELSE LET title == Strip(entries[i].title)
             rm == upsert_topic(st.rm, entries[i], date_str, hour)
         IN  IF title = << >> THEN MergeCards(st, entries, i + 1, date_str, hour, answers)
             ELSE LET e == ensure_aicard_snapshot(st.card, title, date_str, hour, rm[title].slug,
                                                  FALSE, answers[i], "ok")
                  IN  MergeCards([rm |-> IF e.ret # None
                                         THEN [rm EXCEPT ![title] = WithCard(@, e.ret[1], hour)]
                                         ELSE rm,
                                  card |-> e.card, raised |-> e.raised],
                                 entries, i + 1, date_str, hour, answers)

CardEntries == {<<EntryA>>, <<EntryA, EntryB>>, <<EntryBlank, EntryB>>}

(* update_daily_archive up to save_daily_archive: record_map is the day's archive file. *)
CardMerge ==
    /\ aicard.calls < MaxCardCalls
    /\ \E entries \in CardEntries, hour \in Hours :
         \E answers \in [1..Len(entries) -> {Uniform("ok"), Uniform("server_error"), Uniform("transport")}] :
           LET st == MergeCards([rm |-> record_map, card |-> aicard, raised |-> FALSE],
                                entries, 1, a_date, hour, answers)
           IN  /\ record_map' = IF st.raised THEN record_map ELSE st.rm
               /\ aicard' = [st.card EXCEPT !.calls = @ + 1,
                               !.last = [kind |-> "merge", entries |-> entries, hour |-> hour,
                                         answers |-> answers, saved |-> ~st.raised]]
    /\ UNCHANGED <<ws, crawlVars, a_date, a_ops, a_last, schedVars>>

NextCard == EnsureSnapshot \/ CardMerge

(* The AI card calls made for the archive of one day. *)
SpecCard == InitDay /\ [][NextCard]_vars

(* fetch_ai_card alone, for every retries up to MaxCardRetries and every answer. *)
SpecCardFetch == InitDay /\ [][CardFetch]_vars

(* C34: a call of ensure_aicard_snapshot that fetched and returned has fetched once  *)
(* and left the html file, the json file and the index entry of its slug, and        *)
(* returns their paths; a call with overwrite = false made while both files exist     *)
(* returns that same value, fetches nothing and changes no file.                      *)
C34_SnapshotIdempotent ==
    aicard.last.kind = "ensure" =>
        LET l == aicard.last
            dir == <<l.key[1], l.key[2]>>
            cached == ~l.overwrite /\ l.key \in DOMAIN l.before.html /\ l.key \in DOMAIN l.before.json
        IN  /\ (l.fetched /\ l.ret # None) =>
                  /\ aicard.fetches = l.before.fetches + 1
                  /\ l.key \in DOMAIN aicard.html /\ l.key \in DOMAIN aicard.json
                  /\ dir \in DOMAIN aicard.index /\ l.key[3] \in DOMAIN aicard.index[dir]
                  /\ aicard.index[dir][l.key[3]].html = l.ret[1].html
                  /\ l.ret[1] = CardPaths(l.title, l.key)
            /\ cached =>
                  /\ l.ret = Some(CardPaths(l.title, l.key))
                  /\ ~l.fetched /\ aicard.fetches = l.before.fetches
                  /\ aicard.html = l.before.html /\ aicard.json = l.before.json
                  /\ aicard.index = l.before.index

C34_Witness ==
    /\ aicard.last.kind = "ensure" /\ ~aicard.last.overwrite /\ ~aicard.last.fetched
    /\ aicard.last.ret # None /\ aicard.fetches = 1
    /\ aicard.last.key \in DOMAIN aicard.html

(* C35: fetch_ai_card with retries = r sends at most r + 1 requests; answered 5xx on *)
(* every attempt it raises AICardError after exactly r + 1 requests; an attempt that  *)
(* succeeds is the last request sent.                                                 *)
C35_BoundedRequests ==
    aicard.last.kind = "fetch" =>
        LET l == aicard.last IN
        /\ l.sent <= l.retries + 1
        /\ (\A i \in 1..(l.retries + 1) : l.responses[i] = "server_error")
              => (l.outcome = "AICardError" /\ l.sent = l.retries + 1)
        /\ \A i \in 1..(l.retries + 1) : (l.responses[i] = "ok" /\ l.sent >= i) => l.sent = i

C35_Witness ==
    /\ aicard.last.kind = "fetch" /\ aicard.last.retries = 2 /\ aicard.last.sent = 3
    /\ aicard.last.outcome = "AICardError"
    /\ \A i \in 1..3 : aicard.last.responses[i] = "server_error"

(* C37: a merge of an hour in which the AI card of a topic could not be fetched *)
(* still merges every entry and saves the day's archive.                          *)
C37_CardFailureContained ==
    aicard.last.kind = "merge" =>
        /\ aicard.last.saved
        /\ \A i \in 1..Len(aicard.last.entries) :
             LET title == Strip(aicard.last.entries[i].title) IN
             title # << >> =>
                /\ title \in DOMAIN record_map
                /\ HourStr(aicard.last.hour) \in Range(record_map[title].appeared_hours)

(* ------------------------------------------------------------------ *)
(* HotTopicsWebSocketService: _client_handler, _broadcast_loop, _broadcast *)
(* ------------------------------------------------------------------ *)
MaxClients == 2
MaxVersions == 2

Clients == 1..MaxClients

(* The server started: no client, no snapshot seen, the broadcast task in its loop. *)
SocketStart ==
    [pc |-> "idle", clients |-> {}, conn |-> [c \in Clients |-> "none"], last_version |-> 0,
     latest |-> 0, queue |-> << >>, sending |-> 0, got |-> [c \in Clients |-> << >>]]

SocketFrame == UNCHANGED <<aicard, crawlVars, archVars, schedVars>>

(* _register_client: a connection is accepted and its handler starts *)
ClientConnect ==
    /\ ws.pc \in {"idle", "sending", "dead"}
    /\ \E c \in Clients :
         /\ ws.conn[c] = "none"
         /\ ws' = [ws EXCEPT !.conn[c] = "open", !.clients = @ \cup {c}]
    /\ SocketFrame

(* The peer goes away: with a close frame of code 1000 or 1001, or in any other way. *)
ClientClose ==
    /\ ws.pc \in {"idle", "sending", "dead"}
    /\ \E c \in Clients, how \in {"closed_ok", "closed_error"} :
         /\ ws.conn[c] = "open"
         /\ ws' = [ws EXCEPT !.conn[c] = how]
    /\ SocketFrame

(* _client_handler resumes on the closed connection: its finally pops the client. *)
HandlerExit ==
    /\ ws.pc \in {"idle", "sending", "dead"}
    /\ \E c \in ws.clients :
         /\ ws.conn[c] \in {"closed_ok", "closed_error"}
         /\ ws' = [ws EXCEPT !.clients = @ \ {c}]
    /\ SocketFrame

(* The scheduler writes a newer hourly snapshot: repository.get_snapshot changes. *)
NewSnapshot ==
    /\ ws.pc \in {"idle", "sending", "dead"}
    /\ ws.latest < MaxVersions
    /\ ws' = [ws EXCEPT !.latest = @ + 1]
    /\ SocketFrame

(* One turn of _broadcast_loop with a changed version, up to the payloads of     *)
(* _broadcast (lines 330-343): the clients registered now are the ones sent to.  *)
LoopTurn ==
    /\ ws.pc = "idle"
    /\ ws.latest # 0 /\ ws.latest # ws.last_version
    /\ IF ws.clients = {}
       THEN ws' = [ws EXCEPT !.last_version = ws.latest]
       ELSE \E order \in Orders(ws.clients) :
              ws' = [ws EXCEPT !.last_version = ws.latest, !.pc = "sending",
                               !.queue = order, !.sending = ws.latest]
    /\ SocketFrame

(* One await websocket.send(payload) of _broadcast (lines 344-349). On a closed     *)
(* connection send raises ConnectionClosedError, which is caught, or, after a close *)
(* with code 1000 or 1001, ConnectionClosedOK, which leaves _broadcast and the loop. *)
SendNext ==
    /\ ws.pc = "sending"
    /\ LET c == Head(ws.queue)
           rest == Tail(ws.queue)
           after == IF rest = << >> THEN "idle" ELSE "sending"
       IN  CASE ws.conn[c] = "open" ->
                  ws' = [ws EXCEPT !.got[c] = Append(@, ws.sending), !.queue = rest, !.pc = after]
             [] ws.conn[c] = "closed_error" ->
                  ws' = [ws EXCEPT !.clients = @ \ {c}, !.queue = rest, !.pc = after]
             [] OTHER ->
                  ws' = [ws EXCEPT !.queue = << >>, !.pc = "dead"]
    /\ SocketFrame

(* stop(): the shutdown event is set and the broadcast task cancelled *)
SocketStop ==
    /\ ws.pc \in {"idle", "sending"}
    /\ ws' = [ws EXCEPT !.pc = "stopped", !.queue = << >>]
    /\ SocketFrame

InitSocket == CrawlIdle /\ SchedIdle /\ ArchIdle /\ aicard = NoCard /\ ws = SocketStart

NextSocket ==
    \/ ClientConnect
    \/ ClientClose
    \/ HandlerExit
    \/ NewSnapshot
    \/ LoopTurn
    \/ SendNext
    \/ SocketStop

SpecSocket == InitSocket /\ [][NextSocket]_vars

(* C40: whatever the clients do, the broadcast loop is never ended by a client: *)
(* before shutdown it is waiting for its next turn or sending.                    *)
C40_LoopSurvives == ws.pc # "dead"

====
